---- MODULE Spec2Model ----
(***************************************************************************)
(* Agent Identity Hub: the identity store, the capability issuer, the      *)
(* attestation service, the trust engine and the DID service as one state  *)
(* machine.                                                                *)
(*                                                                         *)
(* Every service method is an async function: it runs until its next       *)
(* await, and other callbacks of the process run before it goes on.  A     *)
(* method is therefore one action for each awaited database statement:     *)
(* the statement with the code that follows it up to the next await.  The  *)
(* local variables of a method that has not returned yet are kept in       *)
(* calls.                                                                  *)
(*                                                                         *)
(* Time is the wall clock in milliseconds (Date.now()).  Strings that the  *)
(* code inspects character by character (resources, condition values) are  *)
(* sequences of one-character strings.  Numbers that the code computes     *)
(* with are IEEE 754 doubles.                                              *)
(***************************************************************************)
EXTENDS Integers, Sequences, FiniteSets, Bags, TLC

VARIABLES
    now,               \* Date.now() / CURRENT_TIMESTAMP, in ms
    ticks,             \* number of clock advances so far (bounds the run)
    agents,            \* table agents: agent id -> row
    nextAgentId,       \* agent ids and generated keys are fresh: never reused
    documents,         \* DIDService.documents: DID -> DID document
    activities,        \* table agent_activities: a bag of rows
    caps,              \* table capabilities: capability id -> row
    tokens,            \* the bearer token returned for each capability
    activeCapabilities,\* CapabilityIssuer.activeCapabilities (in-memory index)
    attestations,      \* table attestations: attestation id -> row
    relationships,     \* table agent_relationships: a set of rows
    anomalies,         \* table anomalies: anomaly id -> row
    trustScores,       \* table trust_scores: rows in insertion order
    identities,        \* table identities: a set of rows (DID, agent id)
    calls,             \* the calls in flight: where each is, and its locals
    result             \* what the last call that ended returned or threw

vars == <<now, ticks, agents, nextAgentId, documents, activities, caps, tokens,
          activeCapabilities, attestations, relationships, anomalies,
          trustScores, identities, calls, result>>

-----------------------------------------------------------------------------
(* Bounds of the model *)

MaxAgents == 2
MaxCaps == 2
MaxTicks == 2
MaxChainTicks == 3
MaxUpdates == 1
MaxRevocations == 2
MaxAttestations == 3
MaxAttestRows == 2
MaxMethods == 2
MaxTrustScores == 2
MaxAnomalies == 4
MaxCalls == 2
\* The anomaly ids that requests resolve
MaxResolved == 2

(* Program constants *)

MsPerSecond == 1000
MsPerHour == 60 * 60 * 1000
DefaultExpiresInHours == 24
MaxExpiresInHours == 8760
ChainPageLimit == 100
IssuerPageLimit == 10
ScoreActivityLimit == 100
DetectActivityLimit == 200
AgeDays == 90
RecencyHours == 168
ReputationRange == 1000
MinRecentActivities == 5
MaxRecentActivities == 50
MinTrustChanges == 3
MinCapabilityGrants == 2
MaxRelatedAgents == 20
MinDeviationActivities == 10
MaxDeviation == 5

-----------------------------------------------------------------------------
(* Strings as character sequences *)

StartsWith(s, p) == Len(p) <= Len(s) /\ SubSeq(s, 1, Len(p)) = p

Includes(s, sub) ==
    \E i \in 1..(Len(s) + 1) :
        i + Len(sub) - 1 <= Len(s) /\ SubSeq(s, i, i + Len(sub) - 1) = sub

Star == <<"*">>
AgentsStar == <<"a","g","e","n","t","s","/","*">>
AgentsSlash == <<"a","g","e","n","t","s","/">>
Agents123 == <<"a","g","e","n","t","s","/","1","2","3">>
System == <<"s", "y", "s", "t", "e", "m">>
Capabilities1 == <<"c","a","p","a","b","i","l","i","t","i","e","s","/","1">>

Prod == <<"p","r","o","d">>
Dev == <<"d","e","v">>

-----------------------------------------------------------------------------
(* JSON values (z.unknown()): a tag and one payload field per type *)

Undefined == [t |-> "undefined", n |-> 0, s |-> <<>>, a |-> <<>>]
Num(n) == [t |-> "number", n |-> n, s |-> <<>>, a |-> <<>>]
Str(s) == [t |-> "string", n |-> 0, s |-> s, a |-> <<>>]
Arr(a) == [t |-> "array", n |-> 0, s |-> <<>>, a |-> a]

\* JavaScript ===: arrays, objects and functions are compared by reference,
\* and a value parsed from a request is never the same object as another.
StrictEquals(x, y) ==
    /\ x.t = y.t
    /\ x.t \notin {"array", "object", "function"}
    /\ x.n = y.n
    /\ x.s = y.s

\* Array.prototype.includes (SameValueZero, which is === for these values)
ArrayIncludes(a, x) == \E i \in 1..Len(a) : StrictEquals(a[i], x)

\* The properties every object inherits from Object.prototype
ObjectPrototypeNames ==
    {"constructor", "hasOwnProperty", "isPrototypeOf", "propertyIsEnumerable",
     "toLocaleString", "toString", "valueOf", "__defineGetter__",
     "__defineSetter__", "__lookupGetter__", "__lookupSetter__", "__proto__"}

\* What such a property holds: a function, or for __proto__ the prototype
\* object; no value parsed from JSON is identical to it
Inherited(name) ==
    [t |-> IF name = "__proto__" THEN "object" ELSE "function", n |-> 0,
     s |-> <<name>>, a |-> <<>>]

\* context[parameter]: the context's own property, else the inherited one,
\* else undefined
ContextValue(context, parameter) ==
    IF parameter \in DOMAIN context THEN context[parameter]
    ELSE IF parameter \in ObjectPrototypeNames THEN Inherited(parameter)
    ELSE Undefined

EmptyContext == [p \in {} |-> Undefined]

-----------------------------------------------------------------------------
(* Identifiers *)

\* A DID is the text before its first colon, its method and the identifier
\* that follows: did:ethr:<identifier> is <<"did", "ethr", identifier>>
AgentIds == 1..MaxAgents
DidOf(a) == <<"did", "ethr", a>>
SystemDid == <<"did", "ethr", 0>>
AgentDids == {DidOf(a) : a \in AgentIds}
Dids == AgentDids \cup {SystemDid}

\* The text of an agent's id (a UUID), which is no DID
AgentRef(a) == <<"agent", "id", a>>

\* /^did:/.test(text)
IsDid(text) == text[1] = "did"

-----------------------------------------------------------------------------
(* Numbers: IEEE 754 binary64, as JavaScript computes *)

(* Natural numbers of any size: limbs of 15 bits, least significant first, *)
(* with no leading zero limb                                               *)
Limb == 2 ^ 15

\* the number of bits of k
RECURSIVE Bits(_)
Bits(k) == IF k = 0 THEN 0 ELSE 1 + Bits(k \div 2)

LimbBits == Bits(Limb) - 1

Pow2(n) == 2 ^ n

RECURSIVE Trim(_)
Trim(a) == IF Len(a) > 0 /\ a[Len(a)] = 0 THEN Trim(SubSeq(a, 1, Len(a) - 1))
           ELSE a

RECURSIVE Carry(_, _, _)
\* the limbs of a, each possibly over the limb size, with the carries moved up
Carry(a, i, c) ==
    IF i > Len(a)
    THEN (IF c = 0 THEN <<>> ELSE <<c % Limb>> \o Carry(a, i, c \div Limb))
    ELSE <<(a[i] + c) % Limb>> \o Carry(a, i + 1, (a[i] + c) \div Limb)

LimbAt(a, i) == IF i >= 1 /\ i <= Len(a) THEN a[i] ELSE 0
LongerLen(a, b) == IF Len(a) > Len(b) THEN Len(a) ELSE Len(b)

BigOf(n) == Trim(Carry(<<n>>, 1, 0))

BigAdd(a, b) ==
    Trim(Carry([i \in 1..LongerLen(a, b) |-> LimbAt(a, i) + LimbAt(b, i)], 1, 0))

RECURSIVE Borrow(_, _, _, _)
Borrow(a, b, i, c) ==
    IF i > Len(a) THEN <<>>
    ELSE LET d == a[i] - LimbAt(b, i) - c
         IN  IF d < 0 THEN <<d + Limb>> \o Borrow(a, b, i + 1, 1)
             ELSE <<d>> \o Borrow(a, b, i + 1, 0)

\* a - b for a >= b
BigSub(a, b) == Trim(Borrow(a, b, 1, 0))

RECURSIVE CompareFrom(_, _, _)
CompareFrom(a, b, i) ==
    IF i = 0 THEN 0
    ELSE IF a[i] > b[i] THEN 1
    ELSE IF a[i] < b[i] THEN -1
    ELSE CompareFrom(a, b, i - 1)

BigCompare(a, b) ==
    IF Len(a) > Len(b) THEN 1
    ELSE IF Len(a) < Len(b) THEN -1
    ELSE CompareFrom(a, b, Len(a))

\* a * k for 0 <= k < Limb
BigTimes(a, k) == Trim(Carry([i \in 1..Len(a) |-> a[i] * k], 1, 0))

ShiftLimbs(a, n) == IF Len(a) = 0 THEN a ELSE [i \in 1..n |-> 0] \o a

RECURSIVE MulFrom(_, _, _)
MulFrom(a, b, i) ==
    IF i > Len(b) THEN <<>>
    ELSE BigAdd(ShiftLimbs(BigTimes(a, b[i]), i - 1), MulFrom(a, b, i + 1))

BigMul(a, b) == MulFrom(a, b, 1)

\* a * 2^n
BigShiftLeft(a, n) ==
    ShiftLimbs(BigTimes(a, Pow2(n % LimbBits)), n \div LimbBits)

\* floor(a / 2^n)
BigShiftRight(a, n) ==
    LET w == n \div LimbBits
        b == n % LimbBits
    IN  IF w >= Len(a) THEN <<>>
        ELSE Trim([i \in 1..(Len(a) - w) |->
                     (a[i + w] \div Pow2(b))
                     + (LimbAt(a, i + w + 1) % Pow2(b)) * Pow2(LimbBits - b)])

\* whether a mod 2^n is not zero
LowBits(a, n) ==
    LET w == n \div LimbBits
        b == n % LimbBits
    IN  \/ \E i \in 1..Len(a) : i <= w /\ a[i] # 0
        \/ LimbAt(a, w + 1) % Pow2(b) # 0

\* bit n of a (bit 0 is the lowest)
Bit(a, n) == (LimbAt(a, n \div LimbBits + 1) \div Pow2(n % LimbBits)) % 2

BitLength(a) == IF Len(a) = 0 THEN 0
                ELSE (Len(a) - 1) * LimbBits + Bits(a[Len(a)])

RECURSIVE ShortDivision(_, _, _, _)
\* the limbs of floor(a / d) from limb i down, with the remainder last
ShortDivision(a, d, i, r) ==
    IF i = 0 THEN [q |-> <<>>, r |-> r]
    ELSE LET top == r * Limb + a[i]
             rest == ShortDivision(a, d, i - 1, top % d)
         IN  [q |-> Append(rest.q, top \div d), r |-> rest.r]

\* floor(a / d) and a mod d for 0 < d < Limb
BigDivide(a, d) ==
    LET short == ShortDivision(a, d, Len(a), 0)
    IN  [q |-> Trim(short.q), r |-> short.r]

(* IEEE 754 binary64: sign, 53-bit significand m, exponent e: the value   *)
(* is m * 2^e with 2^52 <= m < 2^53, or zero                               *)
Precision == 53
Zero == [neg |-> FALSE, m |-> <<>>, e |-> 0]

\* round to nearest, ties to even: the double nearest to n * 2^e, where
\* sticky says that the true value is a little above n * 2^e
Round(neg, n, e, sticky) ==
    LET len == BitLength(n)
        drop == len - Precision
    IN  IF len = 0 THEN Zero
        ELSE IF drop <= 0
        THEN [neg |-> neg, m |-> BigShiftLeft(n, 0 - drop), e |-> e + drop]
        ELSE LET q == BigShiftRight(n, drop)
                 half == Bit(n, drop - 1) = 1
                 rest == LowBits(n, drop - 1) \/ sticky
                 up == half /\ (rest \/ Bit(q, 0) = 1)
                 r == IF up THEN BigAdd(q, <<1>>) ELSE q
             IN  IF BitLength(r) > Precision
                 THEN [neg |-> neg, m |-> BigShiftRight(r, 1), e |-> e + drop + 1]
                 ELSE [neg |-> neg, m |-> r, e |-> e + drop]

\* the double of an integer
Double(n) == IF n < 0 THEN Round(TRUE, BigOf(0 - n), 0, FALSE)
             ELSE Round(FALSE, BigOf(n), 0, FALSE)

Negate(x) == IF Len(x.m) = 0 THEN x ELSE [x EXCEPT !.neg = ~x.neg]

\* the order of the magnitudes of x and y
CompareMagnitude(x, y) ==
    IF Len(x.m) = 0 \/ Len(y.m) = 0
    THEN (IF Len(x.m) # 0 THEN 1 ELSE IF Len(y.m) # 0 THEN -1 ELSE 0)
    ELSE IF x.e > y.e THEN 1
    ELSE IF x.e < y.e THEN -1
    ELSE BigCompare(x.m, y.m)

\* -1, 0 or 1 as x is less than, equal to or greater than y
Compare(x, y) ==
    IF x.neg # y.neg
    THEN (IF Len(x.m) = 0 /\ Len(y.m) = 0 THEN 0 ELSE IF x.neg THEN -1 ELSE 1)
    ELSE IF x.neg THEN 0 - CompareMagnitude(x, y)
    ELSE CompareMagnitude(x, y)

Less(x, y) == Compare(x, y) < 0
Greater(x, y) == Compare(x, y) > 0

\* x + y
Plus(x, y) ==
    IF Len(x.m) = 0 THEN y
    ELSE IF Len(y.m) = 0 THEN x
    ELSE LET hi == IF x.e >= y.e THEN x ELSE y
             lo == IF x.e >= y.e THEN y ELSE x
             gap == hi.e - lo.e
         IN  IF gap > 2 * Precision THEN hi
             ELSE LET a == BigShiftLeft(hi.m, gap)
                      b == lo.m
                  IN  IF hi.neg = lo.neg
                      THEN Round(hi.neg, BigAdd(a, b), lo.e, FALSE)
                      ELSE IF BigCompare(a, b) >= 0
                      THEN Round(hi.neg, BigSub(a, b), lo.e, FALSE)
                      ELSE Round(lo.neg, BigSub(b, a), lo.e, FALSE)

Minus(x, y) == Plus(x, Negate(y))

\* x * y
Times(x, y) ==
    IF Len(x.m) = 0 \/ Len(y.m) = 0 THEN Zero
    ELSE Round(x.neg # y.neg, BigMul(x.m, y.m), x.e + y.e, FALSE)

\* the bits a quotient is computed with beyond those of its dividend: as many
\* as a double has
GuardBits == Precision + 11

RECURSIVE DivideEach(_, _, _)
\* floor(n / (d[i] * ... * d[Len(d)])), and whether anything was cut off
DivideEach(n, d, i) ==
    IF i > Len(d) THEN [q |-> n, cut |-> FALSE]
    ELSE LET part == BigDivide(n, d[i])
             rest == DivideEach(part.q, d, i + 1)
         IN  [q |-> rest.q, cut |-> rest.cut \/ part.r # 0]

\* x / (d[1] * ... * d[Len(d)]) for positive integers d[i] < Limb
Over(x, d) ==
    IF Len(x.m) = 0 THEN Zero
    ELSE LET y == DivideEach(BigShiftLeft(x.m, GuardBits), d, 1)
         IN  Round(x.neg, y.q, x.e - GuardBits, y.cut)

RECURSIVE DigitFrom(_, _, _, _)
\* the largest g below the limb size with d * g <= r, from bit i down
DigitFrom(r, d, g, i) ==
    IF i < 0 THEN g
    ELSE IF BigCompare(BigTimes(d, g + Pow2(i)), r) <= 0
    THEN DigitFrom(r, d, g + Pow2(i), i - 1)
    ELSE DigitFrom(r, d, g, i - 1)

RECURSIVE LongDivision(_, _, _, _)
\* the limbs of floor(n / d) from limb i down, with the remainder last
LongDivision(n, d, i, r) ==
    IF i = 0 THEN [q |-> <<>>, r |-> r]
    ELSE LET top == BigAdd(ShiftLimbs(r, 1), Trim(<<n[i]>>))
             g == DigitFrom(top, d, 0, LimbBits - 1)
             left == BigSub(top, BigTimes(d, g))
             rest == LongDivision(n, d, i - 1, left)
         IN  IF Len(left) >= 0
             THEN [q |-> Append(rest.q, g), r |-> rest.r]
             ELSE [q |-> <<>>, r |-> <<>>]

\* x / y for y # 0
Divide(x, y) ==
    IF Len(x.m) = 0 THEN Zero
    ELSE LET dividend == BigShiftLeft(x.m, GuardBits)
             z == LongDivision(dividend, y.m, Len(dividend), <<>>)
         IN  Round(x.neg # y.neg, Trim(z.q), x.e - GuardBits - y.e,
                   Len(z.r) # 0)

RECURSIVE RootFrom(_, _, _)
\* the largest r + (bits below i) whose square is at most n
RootFrom(n, r, i) ==
    IF i < 0 THEN r
    ELSE LET t == BigAdd(r, BigShiftLeft(<<1>>, i))
         IN  IF BigCompare(BigMul(t, t), n) <= 0 THEN RootFrom(n, t, i - 1)
             ELSE RootFrom(n, r, i - 1)

\* floor(sqrt(n))
BigRoot(n) == RootFrom(n, <<>>, BitLength(n) \div 2)

\* Math.sqrt(x) for x >= 0
Sqrt(x) ==
    IF Len(x.m) = 0 THEN Zero
    ELSE LET k == IF (x.e - GuardBits) % 2 = 0 THEN GuardBits ELSE GuardBits + 1
             n == BigShiftLeft(x.m, k)
             r == BigRoot(n)
         IN  Round(FALSE, r, (x.e - k) \div 2, BigCompare(BigMul(r, r), n) # 0)


\* Math.min and Math.max
Min(x, y) == IF Less(y, x) THEN y ELSE x
Max(x, y) == IF Greater(y, x) THEN y ELSE x

\* The number a decimal literal denotes: n / 10^places
Decimal(n, places) ==
    Over(Double(n), [i \in 1..places |-> 10])

Half == Decimal(5, 1)
One == Double(1)

\* clamp(value, min, max): Math.min(Math.max(value, min), max)
Clamp(value, min, max) == Min(Max(value, min), max)

\* floor(x * 10^places) for 0 <= x < 2^15: the digits of x before and just
\* after the decimal point
Floor(x, places) ==
    LET n == BigTimes(x.m, 10 ^ places)
        q == IF x.e >= 0 THEN BigShiftLeft(n, x.e) ELSE BigShiftRight(n, 0 - x.e)
    IN  IF Len(q) = 0 THEN 0 ELSE q[1]

\* A number bound to a DECIMAL(3,2) parameter: the driver sends the shortest
\* decimal text that reads back as the number, and the server rounds that
\* text to two places, half away from zero.  The text is at or above the
\* middle of two hundredths when the number is, and also when the number is
\* the double nearest to that middle (whose shortest text is the middle).
\* The result is in hundredths.
ToDecimal2(x) ==
    LET k == Floor(x, 2)
        middle == Over(Double(2 * k + 1), <<200>>)
        \* whether x >= (2k+1)/200 exactly: x * 200 >= 2k + 1
        scaled == BigTimes(x.m, 200)
        odd == BigOf(2 * k + 1)
        above == IF Len(x.m) = 0 THEN FALSE
                 ELSE IF x.e >= 0
                 THEN BigCompare(BigShiftLeft(scaled, x.e), odd) >= 0
                 ELSE BigCompare(scaled, BigShiftLeft(odd, 0 - x.e)) >= 0
    IN  IF above \/ Compare(x, middle) = 0 THEN k + 1 ELSE k

\* parseFloat of the text of a DECIMAL(3,2) column
FromDecimal2(hundredths) == Over(Double(hundredths), <<100>>)
-----------------------------------------------------------------------------
(* Rows and table helpers *)

\* SELECT * FROM agents WHERE did = $1, or WHERE id = $1 when the text does
\* not start with 'did:' (IdentityManager.getAgent)
AgentsByDid(idOrDid) ==
    IF IsDid(idOrDid)
    THEN {a \in DOMAIN agents : agents[a].did = idOrDid}
    ELSE {a \in DOMAIN agents : AgentRef(a) = idOrDid}
AgentExists(idOrDid) == AgentsByDid(idOrDid) # {}
AgentByDid(idOrDid) == CHOOSE a \in AgentsByDid(idOrDid) : TRUE

\* getAgentByDID: the error it throws, "none" when it returns the agent
GetAgentError(did) == IF AgentExists(did) THEN "none" ELSE "NotFoundError"

\* WHERE id = $1 and WHERE agent_id = $1 with a text that a caller gave as
\* an agent id: the id the text is.  Ids are UUIDs, so a DID is the id of no
\* agent (0)
IdOf(idOrDid) == IF IsDid(idOrDid) THEN 0 ELSE idOrDid[3]

\* A row of agent_activities: the agent, the type, the timestamp,
\* metadata.capabilityId (0 when it has none) and whether the JSON text of
\* the metadata includes 'admin'
Activity(agentId, activityType, timestamp, capabilityId, admin) ==
    [agentId |-> agentId, activityType |-> activityType,
     timestamp |-> timestamp, capabilityId |-> capabilityId, admin |-> admin]

\* INSERT INTO agent_activities
LogActivity(log, row) == log (+) SetToBag({row})

\* agent_activities.agent_id REFERENCES agents(id): the INSERT of a row of an
\* agent that has no row fails (SQLSTATE 23503)
ForeignKeyError(agentId) ==
    IF agentId \in DOMAIN agents THEN "none" ELSE "ForeignKeyViolation"

\* SELECT COUNT(*) FROM agent_activities WHERE activity_type = $1
ActivityCount(log, activityType) ==
    BagCardinality([r \in {x \in DOMAIN log : x.activityType = activityType}
                       |-> log[r]])

\* anomalies.agent_id and trust_scores.agent_id REFERENCES agents(id)
\* ON DELETE CASCADE
CascadeRows(table, agentId) ==
    LET Keep(row) == row.agentId # agentId IN SelectSeq(table, Keep)

\* agent_activities.agent_id REFERENCES agents(id) ON DELETE CASCADE
CascadeActivities(log, agentId) ==
    LET keep == {r \in DOMAIN log : r.agentId # agentId}
    IN  [r \in keep |-> log[r]]

SeqToSet(s) == {s[i] : i \in 1..Len(s)}

\* A table with one more row, or with the row of that key replaced
Put(table, key, row) ==
    [k \in DOMAIN table \cup {key} |-> IF k = key THEN row ELSE table[k]]

\* The hex text of a key is numbered as the identifier of a DID is: the key
\* pair generated for agent a has the text a, and NoHex is the empty text
NoHex == -1

\* A verification method: its id after the '#', and its publicKeyHex
VerificationMethod(id, publicKeyHex) ==
    [id |-> id, publicKeyHex |-> publicKeyHex]

\* The document createDID builds (the created and updated stamps are left
\* out): its one verification method carries the key without its '0x', which
\* is the identifier the DID was generated from
NewDocument(did, services) ==
    [id |-> did, controller |-> did,
     verificationMethod |-> Arr(<<VerificationMethod("keys-1", did[3])>>),
     service |-> services]

\* this.documents.set(did, document)
SetDocument(did, document) == Put(documents, did, document)

\* this.documents.delete(did)
DeleteDocument(did) == [d \in DOMAIN documents \ {did} |-> documents[d]]

\* The service createAgent registers with every agent's DID
McpService == "#mcp"

-----------------------------------------------------------------------------
(* Calls in flight *)

IdleCall == [pc |-> "idle"]
Idle(c) == calls[c].pc = "idle"

\* The slot a new call takes: the lowest one that is idle, among the first
\* `limit` slots
FreeCalls(limit) ==
    {c \in 1..limit : Idle(c) /\ \A d \in 1..(c - 1) : ~Idle(d)}

\* What result holds while no call has just ended
Awaiting == [op |-> "await"]

\* The call reaches its next await with these locals
Suspend(c, frame) ==
    /\ calls' = [calls EXCEPT ![c] = frame]
    /\ result' = Awaiting

\* The call ends: its promise is settled with this value or error
Return(c, value) ==
    /\ calls' = [calls EXCEPT ![c] = IdleCall]
    /\ result' = value

-----------------------------------------------------------------------------
(* Identity manager *)

\* An optional text: <<>> when it is undefined
NoText == <<>>

EmptyMetadata == [k \in {} |-> NoText]

\* {...request.metadata, ownerDid, createdBy: ownerDid || 'system'} as
\* JSON.stringify writes it: a key whose value is undefined is left out
NewAgentMetadata(request, ownerDid) ==
    LET given == IF "metadata" \in DOMAIN request THEN request.metadata
                 ELSE EmptyMetadata
        keys == (DOMAIN given \ {"ownerDid"})
                    \cup (IF ownerDid # NoText THEN {"ownerDid"} ELSE {})
                    \cup {"createdBy"}
    IN  [k \in keys |->
            IF k = "createdBy"
            THEN (IF ownerDid # NoText THEN ownerDid ELSE <<"system">>)
            ELSE IF k = "ownerDid" THEN ownerDid
            ELSE given[k]]

\* The Agent object built by createAgent; the public key is that of the key
\* pair createDID generated, a trust score is kept in hundredths as its
\* DECIMAL(3,2) column holds it (last_active_at is written and never read)
NewAgent(a, request, ownerDid, at) ==
    [did |-> DidOf(a), name |-> request.name,
     description |-> IF "description" \in DOMAIN request
                     THEN request.description ELSE NoText,
     type |-> request.type, publicKey |-> a,
     trustScore |-> ToDecimal2(Half), reputation |-> 0, status |-> "active",
     capabilities |-> IF "capabilities" \in DOMAIN request
                      THEN request.capabilities ELSE <<>>,
     metadata |-> NewAgentMetadata(request, ownerDid),
     createdAt |-> at, updatedAt |-> at]

(* transaction(callback): BEGIN, the callback's statements, COMMIT; a     *)
(* statement that throws makes the catch block ROLLBACK.  What the       *)
(* statements wrote is seen by the other callbacks from the COMMIT on,   *)
(* and never after a ROLLBACK.                                           *)
Transaction_NoRollback(before, after, committed) == after

Transaction(before, after, committed) ==
    IF committed THEN after ELSE before

(* The three tables createAgent writes through the transaction client.   *)
AgentTables ==
    [agents |-> agents, identities |-> identities, activities |-> activities]

(* The tables createAgent inserts into, in the order of its statements.  *)
CreateAgentStatements == <<"agents", "identities", "agent_activities">>

(* The tables with what the first `done` statements of createAgent wrote: *)
(* INSERT INTO agents, INSERT INTO identities, INSERT INTO               *)
(* agent_activities.                                                     *)
CreateAgentRows(call, done) ==
    [agents |->
        IF done >= 1 THEN Put(agents, call.agentId, call.agent) ELSE agents,
     identities |->
        IF done >= 2
        THEN identities \cup {[did |-> call.agent.did,
                               agentId |-> call.agentId]}
        ELSE identities,
     activities |->
        IF done >= 3
        THEN LogActivity(activities,
                 Activity(call.agentId, "identity_created",
                          call.agent.createdAt, 0, FALSE))
        ELSE activities]

(* createAgent up to its first INSERT: BEGIN, then createDID, which      *)
(* writes the in-memory registry, and the Agent object.  The key and the *)
(* agent id generated here are spent whatever follows.                   *)
CreateAgent(c, request, ownerDid) ==
    /\ Idle(c)
    /\ nextAgentId <= MaxAgents
    /\ LET a == nextAgentId
       IN  /\ documents' = SetDocument(DidOf(a),
                               NewDocument(DidOf(a), <<McpService>>))
           /\ Suspend(c, [pc |-> "insert", op |-> "createAgent",
                          agentId |-> a,
                          agent |-> NewAgent(a, request, ownerDid, now),
                          done |-> 0])
    /\ nextAgentId' = nextAgentId + 1
    /\ UNCHANGED <<now, ticks, agents, activities, caps, tokens,
                   activeCapabilities, attestations, relationships,
                   anomalies, trustScores, identities>>

(* One INSERT of createAgent succeeds on the transaction client: nothing  *)
(* of it is seen outside the transaction yet.                             *)
CreateAgentInsert(c) ==
    /\ calls[c].pc = "insert"
    /\ calls[c].op = "createAgent"
    /\ Suspend(c, [calls[c] EXCEPT
                      !.done = @ + 1,
                      !.pc = IF calls[c].done + 1 = Len(CreateAgentStatements)
                             THEN "commit" ELSE "insert"])
    /\ UNCHANGED <<now, ticks, agents, nextAgentId, documents, activities,
                   caps, tokens, activeCapabilities, attestations,
                   relationships, anomalies, trustScores, identities>>

(* How a createAgent transaction ends: with COMMIT after its last        *)
(* statement, or with ROLLBACK when a statement throws.                  *)
CreateAgentEnds(c, committed) ==
    LET call == calls[c]
        tables == Transaction(AgentTables, CreateAgentRows(call, call.done),
                              committed)
    IN  /\ agents' = tables.agents
        /\ identities' = tables.identities
        /\ activities' = tables.activities
        /\ Return(c, [op |-> "createAgent",
                      error |-> IF committed THEN "none" ELSE "DatabaseError",
                      agentId |-> call.agentId, done |-> call.done])
        /\ UNCHANGED <<now, ticks, nextAgentId, documents, caps, tokens,
                       activeCapabilities, attestations, relationships,
                       anomalies, trustScores>>

\* COMMIT of createAgent, which then returns the agent
CreateAgentCommit(c) ==
    /\ calls[c].pc = "commit"
    /\ calls[c].op = "createAgent"
    /\ CreateAgentEnds(c, TRUE)

\* The next INSERT of createAgent throws: ROLLBACK, and the error is rethrown
CreateAgentFails(c) ==
    /\ calls[c].pc = "insert"
    /\ calls[c].op = "createAgent"
    /\ CreateAgentEnds(c, FALSE)

\* { ...agent.metadata, ...request.metadata }
MergedMetadata(metadata, given) ==
    [k \in DOMAIN metadata \cup DOMAIN given |->
        IF k \in DOMAIN given THEN given[k] ELSE metadata[k]]

\* UPDATE agents SET ... WHERE id = $n as updateAgent builds it: one column
\* for every field of the request that is not undefined, and updated_at
UpdatedAgent(row, call) ==
    LET request == call.request
        Column(name, value) ==
            IF name \in DOMAIN request THEN request[name] ELSE value
    IN  [row EXCEPT
            !.name = Column("name", @),
            !.description = Column("description", @),
            !.status = Column("status", @),
            !.capabilities = Column("capabilities", @),
            !.metadata = IF "metadata" \in DOMAIN request
                         THEN MergedMetadata(call.metadata, request.metadata)
                         ELSE @,
            !.updatedAt = call.at]

\* What updateAgent answers: the error it throws, and the agent it returns
UpdateAgentResult(error, agentId) ==
    [op |-> "updateAgent", error |-> error, agentId |-> agentId]

\* updateAgent up to its UPDATE: getAgent(agentId), which takes an id or a
\* DID and throws NotFoundError, and the columns to set
UpdateAgent(c, agentId, request) ==
    /\ Idle(c)
    /\ IF ~AgentExists(agentId)
       THEN Return(c, UpdateAgentResult("NotFoundError", agentId))
       ELSE /\ ActivityCount(activities, "identity_updated") < MaxUpdates
            /\ Suspend(c, [pc |-> "update", op |-> "updateAgent",
                           agentId |-> agentId, request |-> request,
                           metadata |-> agents[AgentByDid(agentId)].metadata,
                           at |-> now])
    /\ UNCHANGED <<now, ticks, agents, nextAgentId, documents, activities,
                   caps, tokens, activeCapabilities, attestations,
                   relationships, anomalies, trustScores, identities>>

\* The UPDATE of updateAgent, WHERE id = agentId: it changes the row whose id
\* the argument is, if there is one
UpdateAgentRow(c) ==
    /\ calls[c].pc = "update"
    /\ calls[c].op = "updateAgent"
    /\ agents' = [a \in DOMAIN agents |->
                    IF a = IdOf(calls[c].agentId)
                    THEN UpdatedAgent(agents[a], calls[c]) ELSE agents[a]]
    /\ Suspend(c, [calls[c] EXCEPT !.pc = "log"])
    /\ UNCHANGED <<now, ticks, nextAgentId, documents, activities, caps,
                   tokens, activeCapabilities, attestations, relationships,
                   anomalies, trustScores, identities>>

\* logActivity of updateAgent, with the argument as agent_id: the INSERT
\* fails when no agent has that id
UpdateAgentLog(c) ==
    /\ calls[c].pc = "log"
    /\ calls[c].op = "updateAgent"
    /\ LET call == calls[c]
           error == ForeignKeyError(IdOf(call.agentId))
       IN  IF error # "none"
           THEN /\ Return(c, UpdateAgentResult(error, call.agentId))
                /\ UNCHANGED activities
           ELSE /\ activities' = LogActivity(activities,
                        Activity(IdOf(call.agentId), "identity_updated",
                                 call.at, 0, FALSE))
                /\ Suspend(c, [call EXCEPT !.pc = "reload"])
    /\ UNCHANGED <<now, ticks, agents, nextAgentId, documents, caps, tokens,
                   activeCapabilities, attestations, relationships,
                   anomalies, trustScores, identities>>

\* The getAgent(agentId) whose agent updateAgent returns
UpdateAgentReload(c) ==
    /\ calls[c].pc = "reload"
    /\ calls[c].op = "updateAgent"
    /\ LET call == calls[c]
       IN  IF ~AgentExists(call.agentId)
           THEN Return(c, UpdateAgentResult("NotFoundError", call.agentId))
           ELSE Return(c, [op |-> "updateAgent", error |-> "none",
                           agentId |-> call.agentId,
                           agent |-> agents[AgentByDid(call.agentId)]])
    /\ UNCHANGED <<now, ticks, agents, nextAgentId, documents, activities,
                   caps, tokens, activeCapabilities, attestations,
                   relationships, anomalies, trustScores, identities>>

(* The tables DELETE FROM agents WHERE id = $1 changes: the row of that  *)
(* id and, through ON DELETE CASCADE, every row that references it.      *)
DeleteAgentRows(agentId) ==
    [agents |-> [x \in DOMAIN agents \ {agentId} |-> agents[x]],
     activities |-> CascadeActivities(activities, agentId),
     relationships |-> {r \in relationships :
                           /\ r.sourceAgentId # agentId
                           /\ r.targetAgentId # agentId},
     anomalies |-> CascadeRows(anomalies, agentId),
     trustScores |-> CascadeRows(trustScores, agentId),
     identities |-> {i \in identities : i.agentId # agentId}]

\* What deleteAgent answers; found is the id of the row its getAgent read
DeleteAgentResult(error, agentId, found) ==
    [op |-> "deleteAgent", error |-> error, agentId |-> agentId,
     found |-> found]

(* deleteAgent up to its DELETE: BEGIN, getAgent(agentId) (on the pool), *)
(* which takes an id or a DID and throws NotFoundError, then             *)
(* deactivateDID(agent.did), which throws DIDError when the registry has *)
(* no document of the DID and removes the document otherwise; no         *)
(* ROLLBACK restores it.                                                 *)
DeleteAgent(c, agentId) ==
    /\ Idle(c)
    /\ IF ~AgentExists(agentId)
       THEN /\ Return(c, DeleteAgentResult("NotFoundError", agentId, 0))
            /\ UNCHANGED documents
       ELSE LET found == AgentByDid(agentId)
            IN  IF agents[found].did \notin DOMAIN documents
                THEN /\ Return(c, DeleteAgentResult("DIDError", agentId,
                                                    found))
                     /\ UNCHANGED documents
                ELSE /\ documents' = DeleteDocument(agents[found].did)
                     /\ Suspend(c, [pc |-> "delete", op |-> "deleteAgent",
                                    agentId |-> agentId, found |-> found])
    /\ UNCHANGED <<now, ticks, agents, nextAgentId, activities, caps, tokens,
                   activeCapabilities, attestations, relationships,
                   anomalies, trustScores, identities>>

(* How a deleteAgent transaction ends: the DELETE, with the argument as  *)
(* the id, and the COMMIT, or the ROLLBACK when the DELETE throws.       *)
DeleteAgentEnds(c, committed) ==
    LET call == calls[c]
        before == [agents |-> agents, activities |-> activities,
                   relationships |-> relationships, anomalies |-> anomalies,
                   trustScores |-> trustScores, identities |-> identities]
        tables == Transaction(before, DeleteAgentRows(IdOf(call.agentId)),
                              committed)
    IN  /\ agents' = tables.agents
        /\ activities' = tables.activities
        /\ relationships' = tables.relationships
        /\ anomalies' = tables.anomalies
        /\ trustScores' = tables.trustScores
        /\ identities' = tables.identities
        /\ Return(c, DeleteAgentResult(
                        IF committed THEN "none" ELSE "DatabaseError",
                        call.agentId, call.found))
        /\ UNCHANGED <<now, ticks, nextAgentId, documents, caps, tokens,
                       activeCapabilities, attestations>>

\* DELETE FROM agents WHERE id = $1 and the COMMIT of deleteAgent
DeleteAgentCommit(c) ==
    /\ calls[c].pc = "delete"
    /\ calls[c].op = "deleteAgent"
    /\ DeleteAgentEnds(c, TRUE)

\* The DELETE of deleteAgent throws: ROLLBACK
DeleteAgentFails(c) ==
    /\ calls[c].pc = "delete"
    /\ calls[c].op = "deleteAgent"
    /\ DeleteAgentEnds(c, FALSE)

-----------------------------------------------------------------------------
(* The clock *)

\* The clock starts half a second into a second, then alternately reaches the
\* next full hour and the half second after it
HalfSecond == MsPerSecond \div 2
ClockStep(n) == IF n % 2 = 0 THEN MsPerHour - HalfSecond ELSE HalfSecond

Advance(limit) ==
    /\ ticks < limit
    /\ now' = now + ClockStep(ticks)
    /\ ticks' = ticks + 1
    /\ result' = [op |-> "tick"]
    /\ UNCHANGED <<agents, nextAgentId, documents, activities, caps, tokens,
                   activeCapabilities, attestations,
                   relationships, anomalies, trustScores, identities, calls>>

Tick == Advance(MaxTicks)

-----------------------------------------------------------------------------
(* Capability issuer: conditions *)

Condition(type, parameter, operator, value) ==
    [type |-> type, parameter |-> parameter, operator |-> operator,
     value |-> value]

ConditionFailed(c, word) == <<"Condition failed", c.parameter, word>>

\* An iteration that counts a comparison of non-numbers as a failure
ConditionErrors_StrictTypes(c, context) ==
    LET contextValue == ContextValue(context, c.parameter)
    IN  CASE c.operator = "equals" ->
                IF ~StrictEquals(contextValue, c.value)
                THEN <<ConditionFailed(c, "must equal")>> ELSE <<>>
          [] c.operator = "greater_than" ->
                IF ~(contextValue.t = "number" /\ c.value.t = "number"
                     /\ contextValue.n > c.value.n)
                THEN <<ConditionFailed(c, "must be greater than")>> ELSE <<>>
          [] c.operator = "less_than" ->
                IF ~(contextValue.t = "number" /\ c.value.t = "number"
                     /\ contextValue.n < c.value.n)
                THEN <<ConditionFailed(c, "must be less than")>> ELSE <<>>
          [] c.operator = "contains" ->
                IF contextValue.t = "string" /\ c.value.t = "string"
                   /\ ~Includes(contextValue.s, c.value.s)
                THEN <<ConditionFailed(c, "must contain")>> ELSE <<>>
          [] c.operator = "in" ->
                IF c.value.t = "array" /\ ~ArrayIncludes(c.value.a, contextValue)
                THEN <<ConditionFailed(c, "must be in")>> ELSE <<>>
          [] OTHER -> <<>>

\* One iteration of the loop of evaluateConditions: the errors it pushes
ConditionErrors(c, context) ==
    LET contextValue == ContextValue(context, c.parameter)
    IN  CASE c.operator = "equals" ->
                IF ~StrictEquals(contextValue, c.value)
                THEN <<ConditionFailed(c, "must equal")>> ELSE <<>>
          [] c.operator = "greater_than" ->
                IF contextValue.t = "number" /\ c.value.t = "number"
                   /\ contextValue.n <= c.value.n
                THEN <<ConditionFailed(c, "must be greater than")>> ELSE <<>>
          [] c.operator = "less_than" ->
                IF contextValue.t = "number" /\ c.value.t = "number"
                   /\ contextValue.n >= c.value.n
                THEN <<ConditionFailed(c, "must be less than")>> ELSE <<>>
          [] c.operator = "contains" ->
                IF contextValue.t = "string" /\ c.value.t = "string"
                   /\ ~Includes(contextValue.s, c.value.s)
                THEN <<ConditionFailed(c, "must contain")>> ELSE <<>>
          [] c.operator = "in" ->
                IF c.value.t = "array" /\ ~ArrayIncludes(c.value.a, contextValue)
                THEN <<ConditionFailed(c, "must be in")>> ELSE <<>>
          [] OTHER -> <<>>

\* A loop that returns at the first failing condition
RECURSIVE EvaluateConditionsFrom_FirstOnly(_, _, _)
EvaluateConditionsFrom_FirstOnly(conditions, context, i) ==
    IF i > Len(conditions) THEN <<>>
    ELSE IF ConditionErrors(conditions[i], context) # <<>>
    THEN ConditionErrors(conditions[i], context)
    ELSE EvaluateConditionsFrom_FirstOnly(conditions, context, i + 1)

RECURSIVE EvaluateConditionsFrom(_, _, _)
EvaluateConditionsFrom(conditions, context, i) ==
    IF i > Len(conditions) THEN <<>>
    ELSE ConditionErrors(conditions[i], context)
         \o EvaluateConditionsFrom(conditions, context, i + 1)

\* CapabilityIssuer.evaluateConditions
EvaluateConditions(conditions, context) ==
    EvaluateConditionsFrom(conditions, context, 1)

-----------------------------------------------------------------------------
(* Capability issuer: tokens *)

\* Math.floor(ms / 1000)
ToSeconds(ms) == ms \div MsPerSecond

\* jwt.sign of issueCapability
SignToken(capabilityId, capability) ==
    [jti |-> capabilityId, sub |-> capability.subject, iss |-> capability.issuer,
     iat |-> ToSeconds(capability.issuedAt),
     exp |-> ToSeconds(capability.expiration),
     nbf |-> ToSeconds(capability.notBefore),
     sig |-> "valid"]

\* A token whose payload was altered after signing, and a string that is no JWT
Tampered(token, sub) == [token EXCEPT !.sub = sub, !.sig = "invalid"]
Malformed ==
    [jti |-> 0, sub |-> SystemDid, iss |-> SystemDid, iat |-> 0, exp |-> 0,
     nbf |-> 0, sig |-> "malformed"]

\* jwt.verify called so that it does not look at exp
JwtVerify_NoExpiry(token) ==
    IF token.sig # "valid" THEN "JsonWebTokenError"
    ELSE IF token.nbf > ToSeconds(now) THEN "NotBeforeError"
    ELSE "none"

\* jwt.verify(token, JWT_SECRET): the error it throws, "none" when it decodes
JwtVerify(token) ==
    IF token.sig # "valid" THEN "JsonWebTokenError"
    ELSE IF token.nbf > ToSeconds(now) THEN "NotBeforeError"
    ELSE IF ToSeconds(now) >= token.exp THEN "TokenExpiredError"
    ELSE "none"

-----------------------------------------------------------------------------
(* Capability issuer: verification *)

Invalid(error) ==
    [threw |-> FALSE, valid |-> FALSE, errors |-> <<error>>, subject |-> <<>>,
     allowedActions |-> <<>>]

\* capability.resources.some(...) of verifyCapability
HasResourceAccess(resources, requested) ==
    \E i \in 1..Len(resources) :
        \/ requested = resources[i]
        \/ StartsWith(requested, resources[i])
        \/ resources[i] = Star

\* verifyCapability without its check of the revoked status
VerifyStored_NoRevokedCheck(capability, decoded, request) ==
    IF capability.status = "expired"
    THEN Invalid(<<"Capability has expired">>)
    ELSE IF decoded.sub # capability.subject
    THEN Invalid(<<"Subject mismatch">>)
    ELSE IF request.action \notin SeqToSet(capability.actions)
    THEN Invalid(<<"Action not permitted", request.action>>)
    ELSE IF ~HasResourceAccess(capability.resources, request.resource)
    THEN Invalid(<<"Resource not accessible", request.resource>>)
    ELSE LET conditionErrors ==
                 IF request.hasContext
                 THEN EvaluateConditions(capability.conditions, request.context)
                 ELSE <<>>
         IN  IF Len(conditionErrors) > 0
             THEN [threw |-> FALSE, valid |-> FALSE,
                   errors |-> conditionErrors,
                   subject |-> <<>>, allowedActions |-> <<>>]
             ELSE [threw |-> FALSE, valid |-> TRUE, errors |-> <<>>,
                   subject |-> decoded.sub,
                   allowedActions |-> capability.actions]

\* The part of verifyCapability after the row has been read
VerifyStored(capability, decoded, request) ==
    IF capability.status = "revoked"
    THEN Invalid(<<"Capability has been revoked">>)
    ELSE IF capability.status = "expired"
    THEN Invalid(<<"Capability has expired">>)
    ELSE IF decoded.sub # capability.subject
    THEN Invalid(<<"Subject mismatch">>)
    ELSE IF request.action \notin SeqToSet(capability.actions)
    THEN Invalid(<<"Action not permitted", request.action>>)
    ELSE IF ~HasResourceAccess(capability.resources, request.resource)
    THEN Invalid(<<"Resource not accessible", request.resource>>)
    ELSE LET conditionErrors ==
                 IF request.hasContext
                 THEN EvaluateConditions(capability.conditions, request.context)
                 ELSE <<>>
         IN  IF Len(conditionErrors) > 0
             THEN [threw |-> FALSE, valid |-> FALSE,
                   errors |-> conditionErrors,
                   subject |-> <<>>, allowedActions |-> <<>>]
             ELSE [threw |-> FALSE, valid |-> TRUE, errors |-> <<>>,
                   subject |-> decoded.sub,
                   allowedActions |-> capability.actions]

\* The catch block of verifyCapability (NotBeforeError is a JsonWebTokenError)
CatchVerifyError(error) ==
    IF error = "TokenExpiredError" THEN Invalid(<<"Token has expired">>)
    ELSE IF error \in {"JsonWebTokenError", "NotBeforeError"}
    THEN Invalid(<<"Invalid token">>)
    ELSE Invalid(<<"Verification failed">>)

VerifyRequest(token, action, resource, hasContext, context) ==
    [token |-> token, action |-> action, resource |-> resource,
     hasContext |-> hasContext, context |-> context]

\* What verifyCapability returns: decodedAt is when its jwt.verify read the
\* clock, at is when it returns
VerifyResult(request, decodedAt, out) ==
    [op |-> "verifyCapability", request |-> request, decodedAt |-> decodedAt,
     at |-> now, out |-> out]

\* SELECT * FROM capabilities WHERE id = $1 of verifyCapability and the
\* checks of the row
VerifySelected(request) ==
    IF request.token.jti \notin DOMAIN caps
    THEN Invalid(<<"Capability not found">>)
    ELSE VerifyStored(caps[request.token.jti], request.token, request)

\* CapabilityIssuer.verifyCapability up to its await: jwt.verify, which reads
\* the clock; when it throws, the catch block returns
VerifyCapability(c, request) ==
    /\ Idle(c)
    /\ IF JwtVerify(request.token) # "none"
       THEN Return(c, VerifyResult(request, now,
                                   CatchVerifyError(JwtVerify(request.token))))
       ELSE Suspend(c, [pc |-> "select", op |-> "verifyCapability",
                        request |-> request, decodedAt |-> now])
    /\ UNCHANGED <<now, ticks, agents, nextAgentId, documents, activities, caps,
                   tokens, activeCapabilities, attestations,
                   relationships, anomalies, trustScores, identities>>

\* The SELECT of verifyCapability, the checks of the row, and the result
VerifyCapabilitySelect(c) ==
    /\ calls[c].pc = "select"
    /\ calls[c].op = "verifyCapability"
    /\ Return(c, VerifyResult(calls[c].request, calls[c].decodedAt,
                              VerifySelected(calls[c].request)))
    /\ UNCHANGED <<now, ticks, agents, nextAgentId, documents, activities, caps,
                   tokens, activeCapabilities, attestations,
                   relationships, anomalies, trustScores, identities>>
-----------------------------------------------------------------------------
(* Capability issuer: issue *)

\* An expiresInHours taken as given, without the default
ExpiresInHours_NoDefault(request) ==
    IF "expiresInHours" \in DOMAIN request THEN request.expiresInHours ELSE 0

\* request.expiresInHours || 24: the default for an absent field and for 0
ExpiresInHours(request) ==
    IF "expiresInHours" \in DOMAIN request /\ request.expiresInHours # 0
    THEN request.expiresInHours
    ELSE DefaultExpiresInHours

\* capability.conditions || [] as INSERT INTO capabilities stores it
StoredConditions(request) ==
    IF "conditions" \in DOMAIN request THEN request.conditions ELSE <<>>

\* The capability object built by issueCapability
NewCapability(issuerDid, request) ==
    [subject |-> request.subject, issuer |-> issuerDid,
     actions |-> request.actions, resources |-> request.resources,
     conditions |-> StoredConditions(request),
     notBefore |-> now,
     expiration |-> now + ExpiresInHours(request) * MsPerHour,
     issuedAt |-> now, revokedAt |-> 0, status |-> "active"]

\* The characters of the action names that requests carry
Letters(word) ==
    CASE word = "admin" -> <<"a", "d", "m", "i", "n">>
      [] word = "administrator" ->
            <<"a", "d", "m", "i", "n", "i", "s", "t", "r", "a", "t", "o", "r">>
      [] word = "read" -> <<"r", "e", "a", "d">>
      [] word = "write" -> <<"w", "r", "i", "t", "e">>
      [] word = "delegate" -> <<"d", "e", "l", "e", "g", "a", "t", "e">>
      [] word = "authenticate" ->
            <<"a", "u", "t", "h", "e", "n", "t", "i", "c", "a", "t", "e">>

\* JSON.stringify(a.metadata).includes('admin') for the metadata that
\* issueCapability logs: {capabilityId, issuer, actions, resources}.  The
\* text includes 'admin' when an action or a resource does: the capability
\* id is 'urn:cap:' and a UUID, the issuer is the DID or the id of an agent
\* (hex digits after its method) or 'did:ethr:system', and the quotes
\* between two strings keep them apart
Admin == <<"a", "d", "m", "i", "n">>
MetadataIncludesAdmin(request) ==
    \/ \E i \in 1..Len(request.actions) :
            Includes(Letters(request.actions[i]), Admin)
    \/ \E i \in 1..Len(request.resources) : Includes(request.resources[i], Admin)

\* The id of the next capability: generateUUID() returns an id that no
\* capability has and no call in flight has taken
TakenCapabilityIds ==
    DOMAIN caps \cup {calls[c].capabilityId :
                        c \in {d \in DOMAIN calls :
                                  /\ calls[d].pc \in {"insert", "log"}
                                  /\ calls[d].op = "issueCapability"}}

NextCapabilityId ==
    CHOOSE n \in 1..(Cardinality(TakenCapabilityIds) + 1) :
        /\ n \notin TakenCapabilityIds
        /\ \A m \in 1..(n - 1) : m \in TakenCapabilityIds

\* What issueCapability answers when it throws, and what it returns
IssueResult(error, issuerDid, request, capabilityId) ==
    [op |-> "issueCapability", error |-> error, issuer |-> issuerDid,
     subject |-> request.subject, hasToken |-> error = "none",
     capabilityId |-> capabilityId, request |-> request,
     expiresIn |-> IF error = "none" THEN ExpiresInHours(request) * 3600
                   ELSE 0]

\* The check of an agent issueCapability has just read
PartyError(did) ==
    IF ~AgentExists(did) THEN "NotFoundError"
    ELSE IF agents[AgentByDid(did)].status # "active"
    THEN "AuthorizationError"
    ELSE "none"

\* The error issueCapability throws after it has read the issuer, and after
\* it has read the subject
IssueError(party, did) == PartyError(did)

\* getAgentByDID(issuerDid) of issueCapability and the check of the issuer
IssuerChecked(c, issuerDid, request) ==
    LET error == IssueError("issuer", issuerDid)
    IN  /\ IF error # "none"
           THEN Return(c, IssueResult(error, issuerDid, request, 0))
           ELSE Suspend(c, [pc |-> "subject", op |-> "issueCapability",
                            issuer |-> issuerDid, request |-> request])
        /\ UNCHANGED <<now, ticks, agents, nextAgentId, documents, activities,
                       caps, tokens, activeCapabilities, attestations,
                       relationships, anomalies, trustScores, identities>>

\* CapabilityIssuer.issueCapability up to its second await
IssueCapability(c, issuerDid, request) ==
    /\ Idle(c)
    /\ IssuerChecked(c, issuerDid, request)

\* The same step of an issueCapability that a route began
IssueCheckIssuer(c) ==
    /\ calls[c].pc = "issuer"
    /\ calls[c].op = "issueCapability"
    /\ IssuerChecked(c, calls[c].issuer, calls[c].request)

\* getAgentByDID(request.subject), the check of the subject, then the id, the
\* capability and the signed token
IssueCheckSubject(c) ==
    /\ calls[c].pc = "subject"
    /\ calls[c].op = "issueCapability"
    /\ LET call == calls[c]
           request == call.request
           error == IssueError("subject", request.subject)
           capability == NewCapability(call.issuer, request)
       IN  IF error # "none"
           THEN Return(c, IssueResult(error, call.issuer, request, 0))
           ELSE /\ NextCapabilityId <= MaxCaps
                /\ Suspend(c, [pc |-> "insert", op |-> "issueCapability",
                               issuer |-> call.issuer, request |-> request,
                               subjectId |-> AgentByDid(request.subject),
                               capabilityId |-> NextCapabilityId,
                               capability |-> capability,
                               token |-> SignToken(NextCapabilityId,
                                                   capability)])
    /\ UNCHANGED <<now, ticks, agents, nextAgentId, documents, activities,
                   caps, tokens, activeCapabilities, attestations,
                   relationships, anomalies, trustScores, identities>>

\* INSERT INTO capabilities, then this.activeCapabilities.set
IssueInsert(c) ==
    /\ calls[c].pc = "insert"
    /\ calls[c].op = "issueCapability"
    /\ caps' = Put(caps, calls[c].capabilityId, calls[c].capability)
    /\ activeCapabilities' = activeCapabilities \cup {calls[c].capabilityId}
    /\ Suspend(c, [calls[c] EXCEPT !.pc = "log"])
    /\ UNCHANGED <<now, ticks, agents, nextAgentId, documents, activities,
                   tokens, attestations, relationships, anomalies,
                   trustScores, identities>>

\* logActivity of issueCapability for the subject it read, then the token
\* is returned
IssueLog(c) ==
    /\ calls[c].pc = "log"
    /\ calls[c].op = "issueCapability"
    /\ LET call == calls[c]
           error == ForeignKeyError(call.subjectId)
       IN  IF error # "none"
           THEN /\ Return(c, IssueResult(error, call.issuer, call.request,
                                         call.capabilityId))
                /\ UNCHANGED <<activities, tokens>>
           ELSE /\ activities' = LogActivity(activities,
                        Activity(call.subjectId, "capability_granted",
                                 call.capability.issuedAt, call.capabilityId,
                                 MetadataIncludesAdmin(call.request)))
                /\ tokens' = Put(tokens, call.capabilityId, call.token)
                /\ Return(c, IssueResult("none", call.issuer, call.request,
                                         call.capabilityId))
    /\ UNCHANGED <<now, ticks, agents, nextAgentId, documents, caps,
                   activeCapabilities, attestations, relationships,
                   anomalies, trustScores, identities>>

\* The MCP tool issue_capability: no schema, the issuer is 'did:ethr:system'
McpIssueCapability(c, args) == IssueCapability(c, SystemDid, args)

-----------------------------------------------------------------------------
(* Middleware: authentication, authorization, validation *)

\* What authenticateToken leaves: req.agent, or the error passed to next()
Attached(agent, capabilities) ==
    [error |-> "none", attached |-> TRUE,
     agent |-> [id |-> agent, did |-> agents[agent].did,
                capabilities |-> capabilities]]

NotAttached(error) ==
    [error |-> error, attached |-> FALSE,
     agent |-> [id |-> 0, did |-> SystemDid, capabilities |-> <<>>]]

\* requireCapability(...requiredCapabilities)
RequireCapabilityError(outcome, requiredCapabilities) ==
    IF ~outcome.attached THEN "AuthenticationError"
    ELSE IF \E cap \in requiredCapabilities :
                \/ cap \in SeqToSet(outcome.agent.capabilities)
                \/ "admin" \in SeqToSet(outcome.agent.capabilities)
    THEN "none"
    ELSE "AuthorizationError"

ConditionTypes == {"time", "rate_limit", "resource_scope", "context"}
ConditionOperators ==
    {"equals", "not_equals", "greater_than", "less_than", "contains", "in",
     "before", "after"}

\* CreateCapabilitySchema: the subject starts with 'did:', actions and
\* resources are not empty, every condition has a type and an operator of
\* the two lists, and expiresInHours is absent or a positive integer of at
\* most 8760
SchemaAccepts(body) ==
    /\ IsDid(body.subject)
    /\ Len(body.actions) >= 1
    /\ Len(body.resources) >= 1
    /\ "conditions" \in DOMAIN body =>
          \A i \in 1..Len(body.conditions) :
              /\ body.conditions[i].type \in ConditionTypes
              /\ body.conditions[i].operator \in ConditionOperators
    /\ "expiresInHours" \in DOMAIN body =>
          /\ body.expiresInHours >= 1
          /\ body.expiresInHours <= MaxExpiresInHours

\* The routes that begin with authenticateToken
Routes == {"none", "postCapability"}

\* What follows authenticateToken.  Alone, its outcome is the answer.  On
\* POST /capabilities an error ends the request; else
\* requireCapability('admin', 'delegate'), validate(CreateCapabilitySchema)
\* and the handler, which calls issueCapability with req.agent.did.
Authenticated(c, call, outcome) ==
    IF call.route = "none"
    THEN Return(c, [op |-> "authenticateToken", hasToken |-> call.hasToken,
                    token |-> call.token, out |-> outcome])
    ELSE LET required == RequireCapabilityError(outcome, {"admin", "delegate"})
             who == outcome.agent.did
         IN  IF outcome.error # "none"
             THEN Return(c, [IssueResult(outcome.error, who, call.body, 0)
                                EXCEPT !.op = "postCapability"])
             ELSE IF required # "none"
             THEN Return(c, [IssueResult(required, who, call.body, 0)
                                EXCEPT !.op = "postCapability"])
             ELSE IF ~SchemaAccepts(call.body)
             THEN Return(c, [IssueResult("ValidationError", who, call.body, 0)
                                EXCEPT !.op = "postCapability"])
             ELSE Suspend(c, [pc |-> "issuer", op |-> "issueCapability",
                              issuer |-> who, request |-> call.body])

\* The request verifyCapability gets from authenticateToken
AuthenticateRequest(token) ==
    VerifyRequest(token, "authenticate", System, FALSE, EmptyContext)

\* authenticateToken up to its first await.  Without a token it throws.  The
\* token is verified as a JWT under JWT_SECRET, the secret issueCapability
\* signs with; when that throws, verifyCapability is called at once and its
\* jwt.verify throws the same, so the request ends with 'Invalid token'.
Authenticate(c, hasToken, token, route, body) ==
    /\ Idle(c)
    /\ LET call == [pc |-> "agent", op |-> "authenticateToken",
                    hasToken |-> hasToken, token |-> token, route |-> route,
                    body |-> body]
       IN  IF ~hasToken
           THEN Authenticated(c, call, NotAttached("AuthenticationError"))
           ELSE IF JwtVerify(token) # "none"
           THEN Authenticated(c, call, NotAttached("AuthenticationError"))
           ELSE Suspend(c, call)
    /\ UNCHANGED <<now, ticks, agents, nextAgentId, documents, activities,
                   caps, tokens, activeCapabilities, attestations,
                   relationships, anomalies, trustScores, identities>>

\* getAgentByDID(decoded.sub) of authenticateToken: the agent read is
\* attached with its own did and the capabilities of its row.  When no agent
\* is found the token is tried as a capability: verifyCapability begins with
\* its jwt.verify, which reads the clock as it is now.
AuthenticateAgent(c) ==
    /\ calls[c].pc = "agent"
    /\ calls[c].op = "authenticateToken"
    /\ LET call == calls[c]
       IN  IF AgentExists(call.token.sub)
           THEN Authenticated(c, call,
                    Attached(AgentByDid(call.token.sub),
                             agents[AgentByDid(call.token.sub)].capabilities))
           ELSE IF JwtVerify(call.token) # "none"
           THEN Authenticated(c, call, NotAttached("AuthenticationError"))
           ELSE Suspend(c, [call EXCEPT !.pc = "capability"])
    /\ UNCHANGED <<now, ticks, agents, nextAgentId, documents, activities,
                   caps, tokens, activeCapabilities, attestations,
                   relationships, anomalies, trustScores, identities>>

\* The SELECT of verifyCapability and its checks, for authenticateToken
AuthenticateCapability(c) ==
    /\ calls[c].pc = "capability"
    /\ calls[c].op = "authenticateToken"
    /\ LET call == calls[c]
           out == VerifySelected(AuthenticateRequest(call.token))
       IN  IF out.valid /\ out.subject # <<>>
           THEN Suspend(c, [pc |-> "subject", op |-> "authenticateToken",
                            hasToken |-> call.hasToken, token |-> call.token,
                            route |-> call.route, body |-> call.body,
                            subject |-> out.subject,
                            allowedActions |-> out.allowedActions])
           ELSE Authenticated(c, call, NotAttached("AuthenticationError"))
    /\ UNCHANGED <<now, ticks, agents, nextAgentId, documents, activities,
                   caps, tokens, activeCapabilities, attestations,
                   relationships, anomalies, trustScores, identities>>

\* getAgentByDID(capabilityResult.subject) of authenticateToken
AuthenticateSubject(c) ==
    /\ calls[c].pc = "subject"
    /\ calls[c].op = "authenticateToken"
    /\ LET call == calls[c]
       IN  IF AgentExists(call.subject)
           THEN Authenticated(c, call,
                              Attached(AgentByDid(call.subject),
                                       call.allowedActions))
           ELSE Authenticated(c, call, NotAttached("NotFoundError"))
    /\ UNCHANGED <<now, ticks, agents, nextAgentId, documents, activities,
                   caps, tokens, activeCapabilities, attestations,
                   relationships, anomalies, trustScores, identities>>

\* authenticateToken as a middleware of no route in particular
AuthenticateToken(c, hasToken, token) ==
    Authenticate(c, hasToken, token, "none", [subject |-> SystemDid])

\* POST /capabilities: authenticateToken, requireCapability('admin',
\* 'delegate'), validate(CreateCapabilitySchema), then the handler
PostCapability(c, hasToken, token, body) ==
    Authenticate(c, hasToken, token, "postCapability", body)

-----------------------------------------------------------------------------
(* Capability issuer: revoke, delegate *)

\* checkAdminCapability without its expiration clause
CheckAdminCapability_IgnoresExpiry(did) ==
    \E c \in DOMAIN caps :
        /\ caps[c].subject = did
        /\ "admin" \in SeqToSet(caps[c].actions)
        /\ caps[c].status = "active"

\* CapabilityIssuer.checkAdminCapability
CheckAdminCapability(did) ==
    \E c \in DOMAIN caps :
        /\ caps[c].subject = did
        /\ "admin" \in SeqToSet(caps[c].actions)
        /\ caps[c].status = "active"
        /\ caps[c].expiration > now

\* An UPDATE that flips the status of a capability that is already revoked
MarkRevoked_Toggle(capability) ==
    IF capability.status = "revoked"
    THEN [capability EXCEPT !.status = "active", !.revokedAt = 0]
    ELSE [capability EXCEPT !.status = "revoked", !.revokedAt = now]

\* UPDATE capabilities SET status = 'revoked', revoked_at = CURRENT_TIMESTAMP
MarkRevoked(capability) ==
    [capability EXCEPT !.status = "revoked", !.revokedAt = now]

\* What revokeCapability answers, with the status of the row it had read
RevokeResult(error, call) ==
    [op |-> "revokeCapability", error |-> error,
     capabilityId |-> call.capabilityId, revokedBy |-> call.revokedBy,
     status |-> call.status]

\* revokeCapability up to its second await: the SELECT of the capability,
\* and who may revoke it without being asked for an admin capability.  The
\* call keeps the row it read, and when its revoker was checked.
RevokeCapability(c, capabilityId, revokedBy) ==
    /\ Idle(c)
    /\ LET call == [pc |-> "update", op |-> "revokeCapability",
                    capabilityId |-> capabilityId, revokedBy |-> revokedBy,
                    subject |-> SystemDid, status |-> "none",
                    checkedAt |-> now, subjectId |-> 0, at |-> 0]
       IN  IF capabilityId \notin DOMAIN caps
           THEN Return(c, RevokeResult("NotFoundError", call))
           ELSE /\ ActivityCount(activities, "capability_revoked")
                       < MaxRevocations
                /\ Suspend(c, [call EXCEPT
                                 !.subject = caps[capabilityId].subject,
                                 !.status = caps[capabilityId].status,
                                 !.pc = IF revokedBy # caps[capabilityId].issuer
                                        THEN "admin" ELSE "update"])
    /\ UNCHANGED <<now, ticks, agents, nextAgentId, documents, activities,
                   caps, tokens, activeCapabilities, attestations,
                   relationships, anomalies, trustScores, identities>>

\* checkAdminCapability(revokedBy) of revokeCapability
RevokeCheckAdmin(c) ==
    /\ calls[c].pc = "admin"
    /\ calls[c].op = "revokeCapability"
    /\ IF CheckAdminCapability(calls[c].revokedBy)
       THEN Suspend(c, [calls[c] EXCEPT !.pc = "update", !.checkedAt = now])
       ELSE Return(c, RevokeResult("AuthorizationError", calls[c]))
    /\ UNCHANGED <<now, ticks, agents, nextAgentId, documents, activities,
                   caps, tokens, activeCapabilities, attestations,
                   relationships, anomalies, trustScores, identities>>

\* The UPDATE of revokeCapability, then this.activeCapabilities.delete
RevokeUpdate(c) ==
    /\ calls[c].pc = "update"
    /\ calls[c].op = "revokeCapability"
    /\ caps' = [caps EXCEPT ![calls[c].capabilityId] = MarkRevoked(@)]
    /\ activeCapabilities' = activeCapabilities \ {calls[c].capabilityId}
    /\ Suspend(c, [calls[c] EXCEPT !.pc = "subject"])
    /\ UNCHANGED <<now, ticks, agents, nextAgentId, documents, activities,
                   tokens, attestations, relationships, anomalies,
                   trustScores, identities>>

\* getAgentByDID(capability.subject) of revokeCapability, after the UPDATE
RevokeGetSubject(c) ==
    /\ calls[c].pc = "subject"
    /\ calls[c].op = "revokeCapability"
    /\ IF ~AgentExists(calls[c].subject)
       THEN Return(c, RevokeResult("NotFoundError", calls[c]))
       ELSE Suspend(c, [calls[c] EXCEPT
                           !.pc = "log",
                           !.subjectId = AgentByDid(calls[c].subject),
                           !.at = now])
    /\ UNCHANGED <<now, ticks, agents, nextAgentId, documents, activities,
                   caps, tokens, activeCapabilities, attestations,
                   relationships, anomalies, trustScores, identities>>

\* logActivity of revokeCapability
RevokeLog(c) ==
    /\ calls[c].pc = "log"
    /\ calls[c].op = "revokeCapability"
    /\ LET call == calls[c]
           error == ForeignKeyError(call.subjectId)
       IN  IF error # "none"
           THEN /\ Return(c, RevokeResult(error, call))
                /\ UNCHANGED activities
           ELSE /\ activities' = LogActivity(activities,
                        Activity(call.subjectId, "capability_revoked",
                                 call.at, call.capabilityId, FALSE))
                /\ Return(c, RevokeResult("none", call))
    /\ UNCHANGED <<now, ticks, agents, nextAgentId, documents, caps, tokens,
                   activeCapabilities, attestations, relationships,
                   anomalies, trustScores, identities>>

\* restrictions?.actions || originalCapability.actions: an array, even an empty
\* one, is truthy, so only an absent field takes the parent's value
OrDefault(has, given, default) == IF has THEN given ELSE default

Restrictions(hasActions, actions, hasResources, resources) ==
    [hasActions |-> hasActions, actions |-> actions,
     hasResources |-> hasResources, resources |-> resources]

NoRestrictions == Restrictions(FALSE, <<>>, FALSE, <<>>)

\* The Delegation object built by delegateCapability
NewDelegation(capabilityId, delegator, delegatee, restrictions, expiresInHours) ==
    [capabilityId |-> capabilityId, delegator |-> delegator,
     delegatee |-> delegatee,
     actions |-> OrDefault(restrictions.hasActions, restrictions.actions,
                           caps[capabilityId].actions),
     resources |-> OrDefault(restrictions.hasResources, restrictions.resources,
                             caps[capabilityId].resources),
     delegatedAt |-> now,
     expiresAt |-> IF expiresInHours # 0 THEN now + expiresInHours * MsPerHour
                   ELSE caps[capabilityId].expiration]

DelegateError(capabilityId, delegator) ==
    IF capabilityId \notin DOMAIN caps THEN "NotFoundError"
    ELSE IF caps[capabilityId].subject # delegator THEN "AuthorizationError"
    ELSE IF "delegate" \notin SeqToSet(caps[capabilityId].actions)
    THEN "AuthorizationError"
    ELSE "none"

\* CapabilityIssuer.delegateCapability: it stores nothing
DelegateCapability(capabilityId, delegator, delegatee, restrictions, expiresInHours) ==
    LET error == DelegateError(capabilityId, delegator)
    IN  /\ result' =
              IF error # "none"
              THEN [op |-> "delegateCapability", error |-> error,
                    capabilityId |-> capabilityId, delegator |-> delegator,
                    restrictions |-> restrictions]
              ELSE [op |-> "delegateCapability", error |-> "none",
                    capabilityId |-> capabilityId, delegator |-> delegator,
                    restrictions |-> restrictions,
                    delegation |-> NewDelegation(capabilityId, delegator,
                                       delegatee, restrictions, expiresInHours)]
        /\ UNCHANGED <<now, ticks, agents, nextAgentId, documents, activities,
                       caps, tokens, activeCapabilities, attestations,
                       relationships, anomalies, trustScores, identities,
                       calls>>

-----------------------------------------------------------------------------
(* Attestation service *)

(* A row of attestations.  expiresAt 0 is NULL.  hasProof says that the   *)
(* proof column holds a proof and not the JSON null, revoked that the     *)
(* revocation column is not NULL.  objects names the JSONB columns whose  *)
(* value is a JSON object, as createAttestation and revokeAttestation     *)
(* write it; the value of the others is a JSON string that holds the      *)
(* JSON text.                                                             *)

\* The secp256k1 package the build resolves: version 3 has sign(), version 4
\* has ecdsaSign() and no sign()
SecpApis == {"v3", "v4"}

\* signData(hash, issuer.publicKey) of createAttestation: the key it is given
\* as the private key is the agent's 33-byte public key, which version 3
\* rejects; version 4 has no function of that name
SignDataError(api) == IF api = "v3" THEN "RangeError" ELSE "TypeError"

\* The error createAttestation throws after it has read the issuer
CreateAttestationError(issuerDid) ==
    IF ~AgentExists(issuerDid) THEN "NotFoundError"
    ELSE IF agents[AgentByDid(issuerDid)].status # "active"
    THEN "AuthorizationError"
    ELSE "none"

CreateAttestationResult(error) ==
    [op |-> "createAttestation", error |-> error, attestationId |-> 0]

\* createAttestation up to its second await: getAgentByDID(issuerDid)
CreateAttestation(c, issuerDid, request) ==
    /\ Idle(c)
    /\ LET error == CreateAttestationError(issuerDid)
       IN  IF error # "none"
           THEN Return(c, CreateAttestationResult(error))
           ELSE Suspend(c, [pc |-> "subject", op |-> "createAttestation",
                            issuer |-> issuerDid, request |-> request])
    /\ UNCHANGED <<now, ticks, agents, nextAgentId, documents, activities,
                   caps, tokens, activeCapabilities, attestations,
                   relationships, anomalies, trustScores, identities>>

\* getAgentByDID(request.subject) of createAttestation, then the proof:
\* signData throws, so the INSERT and logActivity are never reached
CreateAttestationSign(c) ==
    /\ calls[c].pc = "subject"
    /\ calls[c].op = "createAttestation"
    /\ IF ~AgentExists(calls[c].request.subject)
       THEN Return(c, CreateAttestationResult("NotFoundError"))
       ELSE \E api \in SecpApis :
               Return(c, CreateAttestationResult(SignDataError(api)))
    /\ UNCHANGED <<now, ticks, agents, nextAgentId, documents, activities,
                   caps, tokens, activeCapabilities, attestations,
                   relationships, anomalies, trustScores, identities>>

\* mapAttestationFromDb: the driver returns a JSONB column parsed, and
\* JSON.parse of an object throws SyntaxError; a column that is NULL or holds
\* the JSON null is not parsed
MapAttestationError(row) ==
    IF row.objects # {} THEN "SyntaxError" ELSE "none"

\* try { getAgentByDID(...) } catch { warnings.push(...) } of verifyAttestation:
\* the error that escapes the block, and the warnings it pushes
CatchLookup(error, warning) ==
    [escapes |-> "none",
     warnings |-> IF error # "none" THEN <<warning>> ELSE <<>>]

IssuerCheck(attestation) ==
    LET error == GetAgentError(attestation.issuer)
        caught == CatchLookup(error, "Issuer not found")
    IN  IF error = "none"
           /\ agents[AgentByDid(attestation.issuer)].status # "active"
        THEN [escapes |-> "none", warnings |-> <<"Issuer is no longer active">>]
        ELSE caught

SubjectCheck(attestation) ==
    CatchLookup(GetAgentError(attestation.subject), "Subject not found")

\* The hard errors of verifyAttestation for the attestation it has read
AttestationErrors(attestation) ==
    (IF attestation.expiresAt # 0 /\ attestation.expiresAt < now
     THEN <<"Attestation has expired">> ELSE <<>>)
    \o (IF attestation.revoked THEN <<"Attestation has been revoked">> ELSE <<>>)
    \o (IF ~attestation.hasProof THEN <<"Attestation has no proof">> ELSE <<>>)

\* What verifyAttestation answers: the result, and the attestation in it
VerifyAttestationOutcome(call, out) ==
    [op |-> "verifyAttestation", attestationId |-> call.attestationId,
     at |-> call.at, out |-> out,
     read |-> IF "attestation" \in DOMAIN call THEN <<call.attestation>>
              ELSE <<>>]

Threw(error) ==
    [threw |-> TRUE, error |-> error, valid |-> FALSE, errors |-> <<>>,
     warnings |-> <<>>]

\* A verifyAttestation that throws for a missing attestation, as
\* getAttestation does
VerifyAttestationResult_ThrowsNotFound(attestationId) ==
    IF attestationId \notin DOMAIN attestations
    THEN Threw("NotFoundError")
    ELSE IF MapAttestationError(attestations[attestationId]) # "none"
    THEN Threw(MapAttestationError(attestations[attestationId]))
    ELSE [threw |-> FALSE, error |-> "none",
          valid |-> Len(AttestationErrors(attestations[attestationId])) = 0,
          errors |-> AttestationErrors(attestations[attestationId]),
          warnings |-> <<>>]

\* verifyAttestation up to its second await: the SELECT of the attestation,
\* mapAttestationFromDb, and the checks of the expiry and the revocation
VerifyAttestationResult(attestationId) ==
    IF attestationId \notin DOMAIN attestations
    THEN [threw |-> FALSE, error |-> "none", valid |-> FALSE,
          errors |-> <<"Attestation not found">>, warnings |-> <<>>]
    ELSE IF MapAttestationError(attestations[attestationId]) # "none"
    THEN Threw(MapAttestationError(attestations[attestationId]))
    ELSE [threw |-> FALSE, error |-> "none",
          valid |-> Len(AttestationErrors(attestations[attestationId])) = 0,
          errors |-> AttestationErrors(attestations[attestationId]),
          warnings |-> <<>>]

VerifyAttestation(c, attestationId) ==
    /\ Idle(c)
    /\ LET out == VerifyAttestationResult(attestationId)
           call == [pc |-> "issuer", op |-> "verifyAttestation",
                    attestationId |-> attestationId, at |-> now, out |-> out]
       IN  IF attestationId \notin DOMAIN attestations \/ out.threw
           THEN Return(c, VerifyAttestationOutcome(call, out))
           ELSE Suspend(c, [pc |-> "issuer", op |-> "verifyAttestation",
                            attestationId |-> attestationId, at |-> now,
                            attestation |-> attestations[attestationId],
                            out |-> out])
    /\ UNCHANGED <<now, ticks, agents, nextAgentId, documents, activities,
                   caps, tokens, activeCapabilities, attestations,
                   relationships, anomalies, trustScores, identities>>

\* What a lookup of verifyAttestation adds to the result so far
Looked(call, check) ==
    IF check.escapes # "none" THEN Threw(check.escapes)
    ELSE [call.out EXCEPT !.warnings = @ \o check.warnings]

\* getAgentByDID(attestation.issuer) of verifyAttestation
VerifyAttestationIssuer(c) ==
    /\ calls[c].pc = "issuer"
    /\ calls[c].op = "verifyAttestation"
    /\ LET out == Looked(calls[c], IssuerCheck(calls[c].attestation))
       IN  IF out.threw
           THEN Return(c, VerifyAttestationOutcome(calls[c], out))
           ELSE Suspend(c, [calls[c] EXCEPT !.pc = "subject", !.out = out])
    /\ UNCHANGED <<now, ticks, agents, nextAgentId, documents, activities,
                   caps, tokens, activeCapabilities, attestations,
                   relationships, anomalies, trustScores, identities>>

\* getAgentByDID(attestation.subject) of verifyAttestation, and the result
VerifyAttestationSubject(c) ==
    /\ calls[c].pc = "subject"
    /\ calls[c].op = "verifyAttestation"
    /\ Return(c, VerifyAttestationOutcome(calls[c],
                    Looked(calls[c], SubjectCheck(calls[c].attestation))))
    /\ UNCHANGED <<now, ticks, agents, nextAgentId, documents, activities,
                   caps, tokens, activeCapabilities, attestations,
                   relationships, anomalies, trustScores, identities>>

\* A revokeAttestation that tells every caller but an issuer that it may
\* not revoke, whether the attestation exists or not
RevokeAttestationError_NoNotFound(attestationId, revokedBy) ==
    IF attestationId \notin DOMAIN attestations THEN "AuthorizationError"
    ELSE IF MapAttestationError(attestations[attestationId]) # "none"
    THEN MapAttestationError(attestations[attestationId])
    ELSE IF revokedBy # attestations[attestationId].issuer
    THEN "AuthorizationError"
    ELSE "none"

\* The error revokeAttestation throws before it writes: getAttestation and
\* the check of the revoker
RevokeAttestationError(attestationId, revokedBy) ==
    IF attestationId \notin DOMAIN attestations THEN "NotFoundError"
    ELSE IF MapAttestationError(attestations[attestationId]) # "none"
    THEN MapAttestationError(attestations[attestationId])
    ELSE IF revokedBy # attestations[attestationId].issuer
    THEN "AuthorizationError"
    ELSE "none"

\* UPDATE attestations SET revocation = {revokedAt: new Date(), revokedBy}
SetRevocation(attestation, revokedBy, at) ==
    [attestation EXCEPT !.revoked = TRUE, !.revokedAt = at,
                        !.revokedBy = revokedBy,
                        !.objects = @ \cup {"revocation"}]

RevokeAttestationResult(error, attestationId, revokedBy) ==
    [op |-> "revokeAttestation", error |-> error,
     attestationId |-> attestationId, revokedBy |-> revokedBy]

\* revokeAttestation up to its UPDATE
RevokeAttestation(c, attestationId, revokedBy) ==
    /\ Idle(c)
    /\ LET error == RevokeAttestationError(attestationId, revokedBy)
       IN  IF error # "none"
           THEN Return(c, RevokeAttestationResult(error, attestationId,
                                                  revokedBy))
           ELSE Suspend(c, [pc |-> "update", op |-> "revokeAttestation",
                            attestationId |-> attestationId,
                            revokedBy |-> revokedBy, at |-> now])
    /\ UNCHANGED <<now, ticks, agents, nextAgentId, documents, activities,
                   caps, tokens, activeCapabilities, attestations,
                   relationships, anomalies, trustScores, identities>>

\* The UPDATE of revokeAttestation
RevokeAttestationUpdate(c) ==
    /\ calls[c].pc = "update"
    /\ calls[c].op = "revokeAttestation"
    /\ attestations' = [attestations EXCEPT ![calls[c].attestationId] =
                           SetRevocation(@, calls[c].revokedBy, calls[c].at)]
    /\ Return(c, RevokeAttestationResult("none", calls[c].attestationId,
                                         calls[c].revokedBy))
    /\ UNCHANGED <<now, ticks, agents, nextAgentId, documents, activities,
                   caps, tokens, activeCapabilities, relationships,
                   anomalies, trustScores, identities>>

\* The orders in which ORDER BY issued_at DESC may return the rows
Listings ==
    {order \in [1..Len(attestations) -> DOMAIN attestations] :
        /\ \A i, j \in 1..Len(attestations) : i # j => order[i] # order[j]
        /\ \A i, j \in 1..Len(attestations) :
              i < j => attestations[order[i]].issuedAt
                            >= attestations[order[j]].issuedAt}

\* validOnly of listAttestations: unexpired by the database clock, unrevoked
ValidOnly(attestation) ==
    /\ attestation.expiresAt = 0 \/ attestation.expiresAt > now
    /\ ~attestation.revoked

\* LIMIT n OFFSET 0
FirstPage(rows, limit) ==
    SubSeq(rows, 1, IF Len(rows) < limit THEN Len(rows) ELSE limit)

\* The rows of listAttestations({subject, validOnly, type}, {page: 1,
\* limit: 100}); the type "any" stands for no type filter
SubjectAttestations(subject, type, order) ==
    LET Selected(a) ==
            /\ attestations[a].subject = subject
            /\ ValidOnly(attestations[a])
            /\ type # "any" => attestations[a].type = type
    IN  FirstPage(SelectSeq(order, Selected), ChainPageLimit)

\* The rows of listAttestations({issuer, validOnly}, {page: 1, limit: 10})
IssuerAttestations(issuer, order) ==
    LET Selected(a) ==
            /\ attestations[a].issuer = issuer
            /\ ValidOnly(attestations[a])
    IN  FirstPage(SelectSeq(order, Selected), IssuerPageLimit)

\* rows.map(this.mapAttestationFromDb) of listAttestations: the error of the
\* first row that cannot be mapped
ListAttestationsError(rows) ==
    IF \E i \in 1..Len(rows) :
          MapAttestationError(attestations[rows[i]]) # "none"
    THEN "SyntaxError" ELSE "none"

\* An inner loop that pushes every row, visited or not
RECURSIVE PushUnvisited_NoVisitedSet(_, _, _)
PushUnvisited_NoVisitedSet(chain, rows, j) ==
    IF j > Len(rows) THEN chain
    ELSE PushUnvisited_NoVisitedSet(Append(chain, rows[j]), rows, j + 1)

\* The inner loop of buildAttestationChain: push the rows not yet visited
RECURSIVE PushUnvisited(_, _, _)
PushUnvisited(chain, rows, j) ==
    IF j > Len(rows) THEN chain
    ELSE PushUnvisited(IF rows[j] \in SeqToSet(chain) THEN chain
                       ELSE Append(chain, rows[j]),
                       rows, j + 1)

\* The outer loop of buildAttestationChain from the i-th of the subject's
\* attestations up to the next trust_assertion whose issuer is to be
\* followed: the chain, and the attestation the loop waits at (0: none,
\* the loop is over)
RECURSIVE BuildChain(_, _, _, _)
BuildChain(chain, own, i, read) ==
    IF i > Len(own) THEN [chain |-> chain, i |-> i, follows |-> 0]
    ELSE IF own[i] \in SeqToSet(chain) THEN BuildChain(chain, own, i + 1, read)
    ELSE IF read[own[i]].type = "trust_assertion"
    THEN [chain |-> Append(chain, own[i]), i |-> i + 1, follows |-> own[i]]
    ELSE BuildChain(Append(chain, own[i]), own, i + 1, read)

\* The weight and the score of the i-th attestation of a chain
ChainWeight(i) == Over(One, <<i>>)
ChainScore(attestation) ==
    Plus(IF attestation.type = "trust_assertion" THEN Decimal(8, 1)
         ELSE IF attestation.type = "identity_verification"
         THEN Decimal(7, 1)
         ELSE Half,
         Min(Times(Double(Len(attestation.claims)), Decimal(5, 2)),
             Decimal(2, 1)))

RECURSIVE ChainTotals(_, _, _, _, _)
ChainTotals(chain, read, i, totalScore, weight) ==
    IF i > Len(chain) THEN [totalScore |-> totalScore, weight |-> weight]
    ELSE ChainTotals(chain, read, i + 1,
             Plus(totalScore,
                  Times(ChainScore(read[chain[i]]), ChainWeight(i))),
             Plus(weight, ChainWeight(i)))

\* calculateChainTrustScore
ChainTrustScore(chain, read) ==
    IF Len(chain) = 0 THEN Half
    ELSE LET totals == ChainTotals(chain, read, 1, Zero, Zero)
         IN  Min(Divide(totals.totalScore, totals.weight), One)

\* A chain check that does not look at expiresAt
ChainValid_IgnoresExpiry(chain, read, at) ==
    \A i \in 1..Len(chain) : ~read[chain[i]].revoked

\* chain.every(att => !att.revocation && (!att.expiresAt || att.expiresAt > new Date()))
\* over the attestations as they were read
ChainValid(chain, read, at) ==
    \A i \in 1..Len(chain) :
        /\ ~read[chain[i]].revoked
        /\ read[chain[i]].expiresAt = 0 \/ read[chain[i]].expiresAt > at

ChainThrew(call, error) ==
    [op |-> "buildAttestationChain", error |-> error,
     subject |-> call.subject, type |-> call.type, chain |-> <<>>,
     read |-> call.read, rootIssuer |-> call.subject, chainValid |-> FALSE,
     trustScore |-> Zero, at |-> now]

\* The loop of buildAttestationChain goes on from where it is: up to the next
\* listing, or to the end, where the trust score and the validity are
\* computed and the chain is returned
ChainGoesOn(c, call, chain) ==
    LET loop == BuildChain(chain, call.own, call.i, call.read)
    IN  IF loop.follows # 0
        THEN Suspend(c, [call EXCEPT !.pc = "follow", !.chain = loop.chain,
                                     !.i = loop.i, !.follows = loop.follows])
        ELSE Return(c, [op |-> "buildAttestationChain", error |-> "none",
                        subject |-> call.subject, type |-> call.type,
                        chain |-> loop.chain, read |-> call.read,
                        rootIssuer |->
                            IF Len(loop.chain) > 0
                            THEN call.read[loop.chain[1]].issuer
                            ELSE call.subject,
                        chainValid |-> ChainValid(loop.chain, call.read, now),
                        trustScore |-> ChainTrustScore(loop.chain, call.read),
                        at |-> now])

\* The rows a listing returned, added to those read so far
ReadRows(read, rows) ==
    [a \in DOMAIN read \cup SeqToSet(rows) |->
        IF a \in DOMAIN read THEN read[a] ELSE attestations[a]]

NoRows == [a \in {} |-> 0]

\* buildAttestationChain up to its second listing: the subject's valid
\* attestations (the COUNT of listAttestations is merged with its SELECT:
\* its value is not used)
BuildAttestationChain(c, subject, type) ==
    /\ Idle(c)
    /\ \E order \in Listings :
          LET own == SubjectAttestations(subject, type, order)
              call == [pc |-> "follow", op |-> "buildAttestationChain",
                       subject |-> subject, type |-> type, own |-> own,
                       read |-> ReadRows(NoRows, own), chain |-> <<>>,
                       i |-> 1, follows |-> 0]
          IN  IF ListAttestationsError(own) # "none"
              THEN Return(c, ChainThrew([call EXCEPT !.read = NoRows],
                                        ListAttestationsError(own)))
              ELSE ChainGoesOn(c, call, <<>>)
    /\ UNCHANGED <<now, ticks, agents, nextAgentId, documents, activities,
                   caps, tokens, activeCapabilities, attestations,
                   relationships, anomalies, trustScores, identities>>

\* The listing of what the issuer of a trust_assertion issued, the inner
\* loop over it, and the outer loop from there on
BuildAttestationChainFollow(c) ==
    /\ calls[c].pc = "follow"
    /\ calls[c].op = "buildAttestationChain"
    /\ \E order \in Listings :
          LET call == calls[c]
              rows == IssuerAttestations(call.read[call.follows].issuer, order)
              read == ReadRows(call.read, rows)
          IN  IF ListAttestationsError(rows) # "none"
              THEN Return(c, ChainThrew(call, ListAttestationsError(rows)))
              ELSE ChainGoesOn(c, [call EXCEPT !.read = read],
                               PushUnvisited(call.chain, rows, 1))
    /\ UNCHANGED <<now, ticks, agents, nextAgentId, documents, activities,
                   caps, tokens, activeCapabilities, attestations,
                   relationships, anomalies, trustScores, identities>>

-----------------------------------------------------------------------------
(* Trust engine: scores *)

\* The weights, steps, caps and rates of the engine
AttestationWeight == Decimal(3, 1)
ActivityWeight == Decimal(2, 1)
RelationshipWeight == Decimal(2, 1)
AgeWeight == Decimal(1, 1)
ReputationWeight == Decimal(2, 1)
TrustAttestationStep == Decimal(1, 1)
TrustAttestationCap == Decimal(3, 1)
IdentityAttestationStep == Decimal(5, 2)
IdentityAttestationCap == Decimal(2, 1)
NoRecentActivityScore == Decimal(3, 1)
DecayRate == Decimal(5, 2)
BoostRate == Decimal(1, 1)
CriticalMultiplier == Decimal(3, 1)
HighMultiplier == Decimal(2, 1)
MediumMultiplier == Decimal(1, 1)
LowMultiplier == Decimal(5, 2)
PenaltyCap == Decimal(5, 1)
ManipulationConfidence == Decimal(7, 1)
EscalationConfidence == Decimal(8, 1)

\* trust_level DEFAULT 0.50, in hundredths
DefaultTrustLevel == 50

\* The rows of one agent, as a bag
ActivityBag(agentId) ==
    [r \in {x \in DOMAIN activities : x.agentId = agentId} |-> activities[r]]

\* ORDER BY timestamp DESC: the orders in which the rows of a bag may come
\* back, rows of one timestamp in any order
RECURSIVE RowOrders(_)
RowOrders(bag) ==
    IF DOMAIN bag = {} THEN {<<>>}
    ELSE UNION {{<<r>> \o tail : tail \in RowOrders(bag (-) SetToBag({r}))} :
                r \in {x \in DOMAIN bag :
                        \A y \in DOMAIN bag : x.timestamp >= y.timestamp}}

\* getAgentActivity(agentId, limit): SELECT * FROM agent_activities
\* WHERE agent_id = $1 ORDER BY timestamp DESC LIMIT $2
ActivityListings(agentId, limit) ==
    {FirstPage(rows, limit) : rows \in RowOrders(ActivityBag(agentId))}

\* The orders in which a query with no ORDER BY may return a set of rows
Orders(S) ==
    {order \in [1..Cardinality(S) -> S] :
        \A i, j \in 1..Cardinality(S) : i # j => order[i] # order[j]}

\* calculateAttestationScore, from the types of the attestations listed
AttestationScore(types) ==
    LET trust == Cardinality({i \in 1..Len(types) :
                                types[i] = "trust_assertion"})
        identity == Cardinality({i \in 1..Len(types) :
                                types[i] = "identity_verification"})
    IN  IF Len(types) = 0 THEN Half
        ELSE Min(Plus(Plus(Half,
                           Min(Times(Double(trust), TrustAttestationStep),
                               TrustAttestationCap)),
                      Min(Times(Double(identity), IdentityAttestationStep),
                          IdentityAttestationCap)),
                 One)

\* calculateActivityScore
ActivityScore(rows, at) ==
    LET Recent(a) == at - a.timestamp < 7 * 24 * MsPerHour
        Positive(a) == Recent(a) /\ a.activityType \in
                            {"capability_granted", "attestation_issued"}
        Negative(a) == Recent(a) /\ a.activityType \in
                            {"anomaly_detected", "capability_revoked"}
        positiveCount == Len(SelectSeq(rows, Positive))
        negativeCount == Len(SelectSeq(rows, Negative))
        divisor == IF positiveCount + negativeCount = 0 THEN 1
                   ELSE positiveCount + negativeCount
    IN  IF Len(rows) = 0 THEN Half
        ELSE IF Len(SelectSeq(rows, Recent)) = 0 THEN NoRecentActivityScore
        ELSE Plus(Half, Times(Over(Double(positiveCount), <<divisor>>), Half))

\* getRelationships: the rows that name an agent as target and as source
Incoming(agentId) == {r \in relationships : r.targetAgentId = agentId}
Outgoing(agentId) == {r \in relationships : r.sourceAgentId = agentId}

\* reduce((sum, r) => sum + r.trustLevel, 0) from the i-th row on
RECURSIVE TrustSum(_, _, _)
TrustSum(rows, i, sum) ==
    IF i > Len(rows) THEN sum
    ELSE TrustSum(rows, i + 1, Plus(sum, FromDecimal2(rows[i].trustLevel)))

\* calculateRelationshipScore of [...incoming, ...outgoing]
RelationshipScore(all) ==
    IF Len(all) = 0 THEN Half
    ELSE Over(TrustSum(all, 1, Zero), <<Len(all)>>)

\* calculateAgeScore: the age in days over 90, at most 1
AgeScore(createdAt, at) ==
    Min(Over(Over(Double(at - createdAt), <<1000, 60, 60, 24>>), <<AgeDays>>),
        One)

\* calculateReputationScore
ReputationScore(reputation) ==
    Over(Double(reputation + ReputationRange), <<2 * ReputationRange>>)

\* calculateRecencyWeight: rows[1] is the latest activity
RecencyWeight(rows, at) ==
    IF Len(rows) = 0 THEN Zero
    ELSE Max(Zero,
             Minus(One, Over(Over(Double(at - rows[1].timestamp),
                                  <<1000, 60, 60>>),
                             <<RecencyHours>>)))

\* The multiplier of a severity
SeverityMultiplier(severity) ==
    IF severity = "critical" THEN CriticalMultiplier
    ELSE IF severity = "high" THEN HighMultiplier
    ELSE IF severity = "medium" THEN MediumMultiplier
    ELSE LowMultiplier

\* A history query that leaves out AND resolved_at IS NULL
UnresolvedAnomalies_WithResolved(agentId) ==
    {i \in DOMAIN anomalies : anomalies[i].agentId = agentId}

\* getAnomalyHistory(agentId, false): the rows selected
UnresolvedAnomalies(agentId) ==
    {i \in DOMAIN anomalies :
        anomalies[i].agentId = agentId /\ ~anomalies[i].resolved}

\* ORDER BY detected_at DESC: the orders in which the rows may come back
AnomalyListings(agentId) ==
    {[i \in DOMAIN order |-> anomalies[order[i]]] :
        order \in {o \in Orders(UnresolvedAnomalies(agentId)) :
                    \A i, j \in DOMAIN o :
                        i < j => anomalies[o[i]].detectedAt
                                    >= anomalies[o[j]].detectedAt}}

\* penalty += severityMultiplier * anomaly.confidence, from the i-th row on
RECURSIVE PenaltySum(_, _, _)
PenaltySum(rows, i, penalty) ==
    IF i > Len(rows) THEN penalty
    ELSE PenaltySum(rows, i + 1,
            Plus(penalty, Times(SeverityMultiplier(rows[i].severity),
                                FromDecimal2(rows[i].confidence))))

\* calculateAnomalyPenalty, from the rows of getAnomalyHistory
AnomalyPenalty(rows) ==
    IF Len(rows) = 0 THEN Zero
    ELSE Min(PenaltySum(rows, 1, Zero), PenaltyCap)

\* The recency adjustment with the boost from a weight of one half on
RecencyAdjusted_BoostFromHalf(baseScore, recencyWeight) ==
    IF ~Less(recencyWeight, Half)
    THEN Plus(baseScore, Times(BoostRate, recencyWeight))
    ELSE Minus(baseScore, Times(DecayRate, Minus(Half, recencyWeight)))

\* if (recencyWeight > 0.5) finalScore += boost else finalScore -= decay
RecencyAdjusted(baseScore, recencyWeight) ==
    IF Greater(recencyWeight, Half)
    THEN Plus(baseScore, Times(BoostRate, recencyWeight))
    ELSE Minus(baseScore, Times(DecayRate, Minus(Half, recencyWeight)))

\* The interactions a calculation counts as positive and as negative
PositiveInteraction(a) ==
    a.activityType \in {"capability_granted", "attestation_verified"}
NegativeInteraction(a) ==
    a.activityType \in {"anomaly_detected", "capability_revoked"}

\* let baseScore = 0.5; baseScore += ... of calculateTrustScore, each
\* component added in the order of the code
BaseScore(agent, types, rows, all, at) ==
    Plus(Plus(Plus(Plus(Plus(Half,
        Times(AttestationScore(types), AttestationWeight)),
        Times(ActivityScore(rows, at), ActivityWeight)),
        Times(RelationshipScore(all), RelationshipWeight)),
        Times(AgeScore(agent.createdAt, at), AgeWeight)),
        Times(ReputationScore(agent.reputation), ReputationWeight))

\* A calculation that returns the score as it comes, with no clamp
Calculation_Unclamped(call, anomalyPenalty) ==
    [agentId |-> call.agentId, baseScore |-> call.baseScore,
     attestations |-> Len(call.types),
     positiveInteractions |-> Len(SelectSeq(call.rows, PositiveInteraction)),
     negativeInteractions |-> Len(SelectSeq(call.rows, NegativeInteraction)),
     recencyWeight |-> call.recencyWeight,
     anomalyPenalty |-> anomalyPenalty,
     finalScore |-> Minus(RecencyAdjusted(call.baseScore, call.recencyWeight),
                          anomalyPenalty)]

\* The TrustScoreCalculation of calculateTrustScore, from what the call has
\* read and computed and the penalty
Calculation(call, anomalyPenalty) ==
    [agentId |-> call.agentId, baseScore |-> call.baseScore,
     attestations |-> Len(call.types),
     positiveInteractions |-> Len(SelectSeq(call.rows, PositiveInteraction)),
     negativeInteractions |-> Len(SelectSeq(call.rows, NegativeInteraction)),
     recencyWeight |-> call.recencyWeight,
     anomalyPenalty |-> anomalyPenalty,
     finalScore |-> Clamp(Minus(RecencyAdjusted(call.baseScore,
                                                call.recencyWeight),
                                anomalyPenalty), Zero, One)]

\* storeTrustScore: the row trust_scores keeps
TrustScoreRow(calculation, at) ==
    [agentId |-> IdOf(calculation.agentId),
     score |-> ToDecimal2(calculation.finalScore), calculatedAt |-> at]

\* What a call of the trust engine ends with
TrustResult(call, error) ==
    [op |-> call.op, error |-> error, agentId |-> call.agentId,
     sweep |-> call.sweep]

\* A call of the trust engine with an agentId, which is the text of an id or
\* a DID, about to read the agent; rest are the ids of the agents a sweep has
\* still to see
TrustCall(op, agentId, sweep, rest) ==
    [pc |-> "agent", op |-> op, agentId |-> agentId, sweep |-> sweep,
     rest |-> rest]

\* A call of the trust engine ends.  Made by a request, it returns; made by
\* runBackgroundJobs, the sweep broadcasts what it returned and goes on:
\* after calculateTrustScore with detectAnomalies for the same agent, after
\* detectAnomalies or an error (caught and logged) with the next agent
Finish(c, call, value) ==
    IF ~call.sweep THEN Return(c, value)
    ELSE /\ result' = value
         /\ calls' = [calls EXCEPT ![c] =
              IF call.op = "calculateTrustScore" /\ value.error = "none"
              THEN TrustCall("detectAnomalies", call.agentId, TRUE, call.rest)
              ELSE IF Len(call.rest) > 0
              THEN TrustCall("calculateTrustScore", AgentRef(Head(call.rest)),
                             TRUE, Tail(call.rest))
              ELSE IdleCall]

\* const agent = await identityManager.getAgent(agentId): the row of that id
\* or of that DID
ReadAgent(c, call, next) ==
    IF ~AgentExists(call.agentId)
    THEN Finish(c, call, TrustResult(call, "NotFoundError"))
    ELSE Suspend(c, [pc |-> next, op |-> call.op, agentId |-> call.agentId,
                     sweep |-> call.sweep, rest |-> call.rest,
                     agent |-> agents[AgentByDid(call.agentId)]])

\* calculateTrustScore up to its second await, called by a request
CalculateTrustScore(c, agentId) ==
    /\ Idle(c)
    /\ ReadAgent(c, TrustCall("calculateTrustScore", agentId, FALSE, <<>>),
                 "attestations")
    /\ UNCHANGED <<now, ticks, agents, nextAgentId, documents, activities,
                   caps, tokens, activeCapabilities, attestations,
                   relationships, anomalies, trustScores, identities>>

\* The same step of a call made by runBackgroundJobs
CalculateGetAgent(c) ==
    /\ calls[c].pc = "agent"
    /\ calls[c].op = "calculateTrustScore"
    /\ ReadAgent(c, calls[c], "attestations")
    /\ UNCHANGED <<now, ticks, agents, nextAgentId, documents, activities,
                   caps, tokens, activeCapabilities, attestations,
                   relationships, anomalies, trustScores, identities>>

\* listAttestations({subject: agent.did, validOnly: true}) (its COUNT is
\* merged with its SELECT)
CalculateListAttestations(c) ==
    /\ calls[c].pc = "attestations"
    /\ calls[c].op = "calculateTrustScore"
    /\ \E order \in Listings :
          LET valid == SubjectAttestations(calls[c].agent.did, "any", order)
          IN  IF ListAttestationsError(valid) # "none"
              THEN Finish(c, calls[c],
                          TrustResult(calls[c], ListAttestationsError(valid)))
              ELSE Suspend(c, [pc |-> "activities", op |-> calls[c].op,
                               agentId |-> calls[c].agentId,
                               sweep |-> calls[c].sweep,
                               rest |-> calls[c].rest,
                               agent |-> calls[c].agent,
                               types |-> [i \in 1..Len(valid) |->
                                            attestations[valid[i]].type]])
    /\ UNCHANGED <<now, ticks, agents, nextAgentId, documents, activities,
                   caps, tokens, activeCapabilities, attestations,
                   relationships, anomalies, trustScores, identities>>

\* A call with one more local
With(call, pc, name, value) ==
    [k \in DOMAIN call \cup {name} |->
        IF k = "pc" THEN pc ELSE IF k = name THEN value ELSE call[k]]

\* getAgentActivity(agentId, 100)
CalculateGetActivity(c) ==
    /\ calls[c].pc = "activities"
    /\ calls[c].op = "calculateTrustScore"
    /\ \E rows \in ActivityListings(IdOf(calls[c].agentId),
                                       ScoreActivityLimit) :
          Suspend(c, With(calls[c], "incoming", "rows", rows))
    /\ UNCHANGED <<now, ticks, agents, nextAgentId, documents, activities,
                   caps, tokens, activeCapabilities, attestations,
                   relationships, anomalies, trustScores, identities>>

\* SELECT * FROM agent_relationships WHERE target_agent_id = $1
GetIncoming(c, op, next) ==
    /\ calls[c].pc = "incoming"
    /\ calls[c].op = op
    /\ \E incoming \in Orders(Incoming(IdOf(calls[c].agentId))) :
          Suspend(c, With(calls[c], next, "incoming", incoming))
    /\ UNCHANGED <<now, ticks, agents, nextAgentId, documents, activities,
                   caps, tokens, activeCapabilities, attestations,
                   relationships, anomalies, trustScores, identities>>

CalculateGetIncoming(c) == GetIncoming(c, "calculateTrustScore", "outgoing")

\* SELECT * FROM agent_relationships WHERE source_agent_id = $1, then the
\* base score and the recency weight, with new Date() as it is then
CalculateGetOutgoing(c) ==
    /\ calls[c].pc = "outgoing"
    /\ calls[c].op = "calculateTrustScore"
    /\ \E outgoing \in Orders(Outgoing(IdOf(calls[c].agentId))) :
          LET call == calls[c]
          IN  Suspend(c, [pc |-> "anomalies", op |-> call.op,
                          agentId |-> call.agentId, sweep |-> call.sweep,
                          rest |-> call.rest, types |-> call.types,
                          rows |-> call.rows,
                          baseScore |->
                              BaseScore(call.agent, call.types, call.rows,
                                        call.incoming \o outgoing, now),
                          recencyWeight |-> RecencyWeight(call.rows, now)])
    /\ UNCHANGED <<now, ticks, agents, nextAgentId, documents, activities,
                   caps, tokens, activeCapabilities, attestations,
                   relationships, anomalies, trustScores, identities>>

\* getAnomalyHistory(agentId, false) of calculateAnomalyPenalty, then the
\* final score; storeTrustScore takes its new Date() before its INSERT
CalculatePenalty(c) ==
    /\ calls[c].pc = "anomalies"
    /\ calls[c].op = "calculateTrustScore"
    /\ \E rows \in AnomalyListings(IdOf(calls[c].agentId)) :
          Suspend(c, [pc |-> "store", op |-> calls[c].op,
                      agentId |-> calls[c].agentId,
                      sweep |-> calls[c].sweep, rest |-> calls[c].rest,
                      calculation |-> Calculation(calls[c],
                                                  AnomalyPenalty(rows)),
                      at |-> now])
    /\ UNCHANGED <<now, ticks, agents, nextAgentId, documents, activities,
                   caps, tokens, activeCapabilities, attestations,
                   relationships, anomalies, trustScores, identities>>

\* INSERT INTO trust_scores of storeTrustScore
StoreTrustScore(c) ==
    /\ calls[c].pc = "store"
    /\ calls[c].op = "calculateTrustScore"
    /\ IF ForeignKeyError(IdOf(calls[c].agentId)) # "none"
       THEN /\ Finish(c, calls[c],
                      TrustResult(calls[c],
                          ForeignKeyError(IdOf(calls[c].agentId))))
            /\ UNCHANGED trustScores
       ELSE /\ Len(trustScores) < MaxTrustScores
            /\ trustScores' = Append(trustScores,
                                TrustScoreRow(calls[c].calculation,
                                              calls[c].at))
            /\ Suspend(c, [calls[c] EXCEPT !.pc = "update"])
    /\ UNCHANGED <<now, ticks, agents, nextAgentId, documents, activities,
                   caps, tokens, activeCapabilities, attestations,
                   relationships, anomalies, identities>>

\* UPDATE agents SET trust_score = $1 WHERE id = $2, and the call returns
\* its calculation
UpdateTrustScore(c) ==
    /\ calls[c].pc = "update"
    /\ calls[c].op = "calculateTrustScore"
    /\ LET calculation == calls[c].calculation
       IN  /\ agents' = [a \in DOMAIN agents |->
                           IF a = IdOf(calculation.agentId)
                           THEN [agents[a] EXCEPT !.trustScore =
                                    ToDecimal2(calculation.finalScore)]
                           ELSE agents[a]]
           /\ Finish(c, calls[c],
                     [op |-> "calculateTrustScore", error |-> "none",
                      agentId |-> calculation.agentId,
                      sweep |-> calls[c].sweep,
                      calculation |-> calculation])
    /\ UNCHANGED <<now, ticks, nextAgentId, documents, activities, caps,
                   tokens, activeCapabilities, attestations, relationships,
                   anomalies, trustScores, identities>>

-----------------------------------------------------------------------------
(* Trust engine: anomalies *)

\* An AnomalyDetectionResult
Anomaly(agentId, anomalyType, severity, confidence, detectedAt) ==
    [agentId |-> agentId, anomalyType |-> anomalyType,
     severity |-> severity, confidence |-> confidence,
     detectedAt |-> detectedAt]

\* numbers.reduce((a, b) => a + b, 0) from the i-th number on
RECURSIVE SumFrom(_, _, _)
SumFrom(numbers, i, sum) ==
    IF i > Len(numbers) THEN sum
    ELSE SumFrom(numbers, i + 1, Plus(sum, Double(numbers[i])))

\* numbers.reduce((sum, num) => sum + Math.pow(num - mean, 2), 0)
RECURSIVE SquaresFrom(_, _, _, _)
SquaresFrom(numbers, mean, i, sum) ==
    IF i > Len(numbers) THEN sum
    ELSE SquaresFrom(numbers, mean, i + 1,
            Plus(sum, Times(Minus(Double(numbers[i]), mean),
                            Minus(Double(numbers[i]), mean))))

\* calculateStandardDeviation
StandardDeviation(numbers) ==
    IF Len(numbers) = 0 THEN Zero
    ELSE LET mean == Over(SumFrom(numbers, 1, Zero), <<Len(numbers)>>)
         IN  Sqrt(Over(SquaresFrom(numbers, mean, 1, Zero), <<Len(numbers)>>))

\* detectAccessPatternAnomalies
AccessPatternAnomalies(agentId, rows, at) ==
    LET Recent(a) == a.timestamp > at - MsPerHour
        recent == Len(SelectSeq(rows, Recent))
    IN  IF recent < MinRecentActivities THEN <<>>
        ELSE IF recent > MaxRecentActivities
        THEN <<Anomaly(agentId, "unusual_access_pattern", "high",
                       Min(Over(Double(recent), <<100>>), One), at)>>
        ELSE <<>>

\* detectTrustManipulation
TrustManipulation(agentId, rows, at) ==
    LET Update(a) == a.activityType = "trust_score_updated"
    IN  IF Len(SelectSeq(rows, Update)) < MinTrustChanges THEN <<>>
        ELSE <<Anomaly(agentId, "trust_manipulation", "medium",
                       ManipulationConfidence, at)>>

\* detectCapabilityEscalation
CapabilityEscalation(agentId, rows, at) ==
    LET Grant(a) == a.activityType = "capability_granted"
        AdminGrant(a) == Grant(a) /\ a.admin
    IN  IF Len(SelectSeq(rows, Grant)) < MinCapabilityGrants THEN <<>>
        ELSE IF Len(SelectSeq(rows, AdminGrant)) > 0
        THEN <<Anomaly(agentId, "capability_escalation", "high",
                       EscalationConfidence, at)>>
        ELSE <<>>

\* detectCollusionPatterns
CollusionPatterns(agentId, incoming, outgoing, at) ==
    LET related == {incoming[i].sourceAgentId : i \in 1..Len(incoming)}
                    \cup {outgoing[i].targetAgentId : i \in 1..Len(outgoing)}
    IN  IF Cardinality(related) > MaxRelatedAgents
        THEN <<Anomaly(agentId, "collusion_pattern", "medium",
                       Min(Over(Double(Cardinality(related)), <<50>>), One),
                       at)>>
        ELSE <<>>

\* Object.values(typeCounts): the count of each activity type, the types in
\* the order in which the rows first show them
RECURSIVE TypeCounts(_, _, _)
TypeCounts(rows, i, seen) ==
    IF i > Len(rows) THEN <<>>
    ELSE IF rows[i].activityType \in seen THEN TypeCounts(rows, i + 1, seen)
    ELSE <<Cardinality({j \in 1..Len(rows) :
                            rows[j].activityType = rows[i].activityType})>>
         \o TypeCounts(rows, i + 1, seen \cup {rows[i].activityType})

\* detectBehaviorDeviation
BehaviorDeviation(agentId, rows, at) ==
    IF Len(rows) < MinDeviationActivities THEN <<>>
    ELSE LET Deviation(stdDev) ==
                 IF Greater(stdDev, Double(MaxDeviation))
                 THEN <<Anomaly(agentId, "behavior_deviation", "low",
                                Min(Over(stdDev, <<10>>), One), at)>>
                 ELSE <<>>
         IN  Deviation(StandardDeviation(TypeCounts(rows, 1, {})))

\* The anomalies detectAnomalies finds, in the order of its five checks
Detected(agentId, rows, incoming, outgoing, at) ==
    AccessPatternAnomalies(agentId, rows, at)
        \o TrustManipulation(agentId, rows, at)
        \o CapabilityEscalation(agentId, rows, at)
        \o CollusionPatterns(agentId, incoming, outgoing, at)
        \o BehaviorDeviation(agentId, rows, at)

\* The row INSERT INTO anomalies adds: storeAnomaly does not look at the rows
\* the table holds
AnomalyRow(found) ==
    [agentId |-> IdOf(found.agentId), anomalyType |-> found.anomalyType,
     severity |-> found.severity,
     confidence |-> ToDecimal2(found.confidence),
     detectedAt |-> found.detectedAt, resolved |-> FALSE, resolvedAt |-> 0]

\* detectAnomalies up to its second await, called by a request
DetectAnomalies(c, agentId) ==
    /\ Idle(c)
    /\ ReadAgent(c, TrustCall("detectAnomalies", agentId, FALSE, <<>>),
                 "activities")
    /\ UNCHANGED <<now, ticks, agents, nextAgentId, documents, activities,
                   caps, tokens, activeCapabilities, attestations,
                   relationships, anomalies, trustScores, identities>>

\* The same step of a call made by runBackgroundJobs
DetectGetAgent(c) ==
    /\ calls[c].pc = "agent"
    /\ calls[c].op = "detectAnomalies"
    /\ ReadAgent(c, calls[c], "activities")
    /\ UNCHANGED <<now, ticks, agents, nextAgentId, documents, activities,
                   caps, tokens, activeCapabilities, attestations,
                   relationships, anomalies, trustScores, identities>>

\* getAgentActivity(agentId, 200)
DetectGetActivity(c) ==
    /\ calls[c].pc = "activities"
    /\ calls[c].op = "detectAnomalies"
    /\ \E rows \in ActivityListings(IdOf(calls[c].agentId),
                                       DetectActivityLimit) :
          Suspend(c, With(calls[c], "incoming", "rows", rows))
    /\ UNCHANGED <<now, ticks, agents, nextAgentId, documents, activities,
                   caps, tokens, activeCapabilities, attestations,
                   relationships, anomalies, trustScores, identities>>

DetectGetIncoming(c) == GetIncoming(c, "detectAnomalies", "outgoing")

DetectResult(call, error, found) ==
    [op |-> "detectAnomalies", error |-> error, agentId |-> call.agentId,
     sweep |-> call.sweep, anomalies |-> found]

\* The second SELECT of getRelationships, then the five detectors; with an
\* anomaly found, storeAnomaly is called for the first
DetectGetOutgoing(c) ==
    /\ calls[c].pc = "outgoing"
    /\ calls[c].op = "detectAnomalies"
    /\ \E outgoing \in Orders(Outgoing(IdOf(calls[c].agentId))) :
          LET call == calls[c]
              Found(found) ==
                  IF Len(found) = 0
                  THEN Finish(c, call, DetectResult(call, "none", found))
                  ELSE Suspend(c, [pc |-> "store", op |-> call.op,
                                   agentId |-> call.agentId,
                                   sweep |-> call.sweep, rest |-> call.rest,
                                   found |-> found, i |-> 1])
          IN  Found(Detected(call.agentId, call.rows, call.incoming,
                             outgoing, now))
    /\ UNCHANGED <<now, ticks, agents, nextAgentId, documents, activities,
                   caps, tokens, activeCapabilities, attestations,
                   relationships, anomalies, trustScores, identities>>

\* INSERT INTO anomalies of storeAnomaly
StoreAnomaly(c) ==
    /\ calls[c].pc = "store"
    /\ calls[c].op = "detectAnomalies"
    /\ IF ForeignKeyError(IdOf(calls[c].agentId)) # "none"
       THEN /\ Finish(c, calls[c],
                      DetectResult(calls[c],
                          ForeignKeyError(IdOf(calls[c].agentId)), <<>>))
            /\ UNCHANGED anomalies
       ELSE /\ Len(anomalies) < MaxAnomalies
            /\ anomalies' = Append(anomalies,
                                AnomalyRow(calls[c].found[calls[c].i]))
            /\ Suspend(c, [calls[c] EXCEPT !.pc = "log"])
    /\ UNCHANGED <<now, ticks, agents, nextAgentId, documents, activities,
                   caps, tokens, activeCapabilities, attestations,
                   relationships, trustScores, identities>>

\* logActivity of storeAnomaly; after the last anomaly detectAnomalies returns
LogAnomaly(c) ==
    /\ calls[c].pc = "log"
    /\ calls[c].op = "detectAnomalies"
    /\ IF ForeignKeyError(IdOf(calls[c].agentId)) # "none"
       THEN /\ Finish(c, calls[c],
                      DetectResult(calls[c],
                          ForeignKeyError(IdOf(calls[c].agentId)), <<>>))
            /\ UNCHANGED activities
       ELSE /\ activities' = LogActivity(activities,
                    Activity(IdOf(calls[c].agentId), "anomaly_detected",
                             calls[c].found[calls[c].i].detectedAt, 0, FALSE))
            /\ IF calls[c].i < Len(calls[c].found)
               THEN Suspend(c, [calls[c] EXCEPT !.pc = "store", !.i = @ + 1])
               ELSE Finish(c, calls[c],
                           DetectResult(calls[c], "none", calls[c].found))
    /\ UNCHANGED <<now, ticks, agents, nextAgentId, documents, caps, tokens,
                   activeCapabilities, attestations, relationships, anomalies,
                   trustScores, identities>>

\* TrustEngine.resolveAnomaly: UPDATE anomalies SET resolved_at =
\* CURRENT_TIMESTAMP WHERE id = $1, whether or not a row has that id
ResolveAnomaly(anomalyId) ==
    /\ anomalies' = [i \in DOMAIN anomalies |->
                        IF i = anomalyId
                        THEN [anomalies[i] EXCEPT !.resolved = TRUE,
                                                  !.resolvedAt = now]
                        ELSE anomalies[i]]
    /\ result' = [op |-> "resolveAnomaly", error |-> "none",
                  anomalyId |-> anomalyId]
    /\ UNCHANGED <<now, ticks, agents, nextAgentId, documents, activities,
                   caps, tokens, activeCapabilities, attestations,
                   relationships, trustScores, identities, calls>>

\* The rows listAgents selects with the filter {status: 'active'}
ActiveAgents == {a \in DOMAIN agents : agents[a].status = "active"}

\* listAgents({status: 'active'}, {page: 1, limit: 100}) of runBackgroundJobs:
\* ORDER BY created_at DESC LIMIT 100 OFFSET 0.  The lists it may return:
\* the first 100 of the active agents, newest first, agents created at the
\* same time in any order (its COUNT is merged with its SELECT)
SweepPageLimit == 100

SweepOrders ==
    {FirstPage(order, SweepPageLimit) :
        order \in {o \in Orders(ActiveAgents) :
                    \A i, j \in DOMAIN o :
                        i < j => agents[o[i]].createdAt
                                    >= agents[o[j]].createdAt}}

\* runBackgroundJobs up to the first await of its loop: listAgents, then
\* calculateTrustScore(agent.id) for the first agent listed
RunBackgroundJobs(c) ==
    /\ Idle(c)
    /\ \E order \in SweepOrders :
          IF Len(order) = 0
          THEN Return(c, [op |-> "runBackgroundJobs", error |-> "none"])
          ELSE Suspend(c, TrustCall("calculateTrustScore",
                                    AgentRef(Head(order)), TRUE, Tail(order)))
    /\ UNCHANGED <<now, ticks, agents, nextAgentId, documents, activities,
                   caps, tokens, activeCapabilities, attestations,
                   relationships, anomalies, trustScores, identities>>

-----------------------------------------------------------------------------
(* DID service *)

\* generateDID(method, identifier): 'did:ethr:' and the identifier, 'did:key:z'
\* and the identifier in base64url, and for any other method 'did:', the
\* method, ':' and the identifier.  A DID is the triple of 'did', its method
\* and its method-specific part; that of a did:key stands for 'z' and the
\* base64url text of the identifier, which is one-to-one.
GenerateDID(method, identifier) ==
    IF method = "ethr" THEN <<"did", "ethr", identifier>>
    ELSE IF method = "key" THEN <<"did", "key", identifier>>
    ELSE <<"did", method, identifier>>

\* A public key as a caller writes it: whether it begins with '0x', and the
\* hex text that follows.  NoKey is the empty text, as falsy as undefined.
Key(prefixed, hex) == [prefixed |-> prefixed, hex |-> hex]
NoKey == Key(FALSE, NoHex)

\* publicKey.startsWith('0x') ? publicKey.slice(2) : publicKey
WithoutPrefix(key) == key.hex

\* DIDService.createDID(method, publicKey, services): the DID is derived from
\* the key without its '0x', and the document's verification method carries
\* the same text as publicKeyHex.  For 'ethr' the key is the caller's when
\* one is given, and a second call with the same key replaces the document;
\* otherwise, and always for 'key', generateKeyPair draws a key no one has
\* drawn before.  Any other method throws.
CreateDID(method, publicKey, services) ==
    /\ IF method \notin {"ethr", "key"}
       THEN /\ result' = [op |-> "createDID", error |-> "DIDError",
                          did |-> SystemDid]
            /\ UNCHANGED <<documents, nextAgentId>>
       ELSE IF method = "ethr" /\ publicKey # NoKey
       THEN LET did == GenerateDID(method, WithoutPrefix(publicKey))
            IN  /\ documents' = SetDocument(did, NewDocument(did, services))
                /\ result' = [op |-> "createDID", error |-> "none",
                              did |-> did]
                /\ UNCHANGED nextAgentId
       ELSE LET did == GenerateDID(method, nextAgentId)
            IN  /\ nextAgentId <= MaxAgents
                /\ documents' = SetDocument(did, NewDocument(did, services))
                /\ nextAgentId' = nextAgentId + 1
                /\ result' = [op |-> "createDID", error |-> "none",
                              did |-> did]
    /\ UNCHANGED <<now, ticks, agents, activities, caps, tokens,
                   activeCapabilities, attestations,
                   relationships, anomalies, trustScores, identities, calls>>

\* {...existing, ...updates}
Spread(existing, updates) ==
    [f \in DOMAIN existing \cup DOMAIN updates |->
        IF f \in DOMAIN updates THEN updates[f] ELSE existing[f]]

\* An update that lets the caller's fields through, id included
UpdatedDocument_KeepsCallerId(existing, updates) == Spread(existing, updates)

\* {...existing, ...updates, id: existing.id} of updateDID
UpdatedDocument(existing, updates) ==
    [Spread(existing, updates) EXCEPT !.id = existing.id]

\* DIDService.updateDID
UpdateDID(did, updates) ==
    /\ IF did \notin DOMAIN documents
       THEN /\ result' = [op |-> "updateDID", error |-> "DIDError",
                          did |-> did, updates |-> updates]
            /\ UNCHANGED documents
       ELSE /\ documents' = SetDocument(did,
                                UpdatedDocument(documents[did], updates))
            /\ result' = [op |-> "updateDID", error |-> "none",
                          did |-> did, updates |-> updates]
    /\ UNCHANGED <<now, ticks, agents, nextAgentId, activities, caps, tokens,
                   activeCapabilities, attestations,
                   relationships, anomalies, trustScores, identities, calls>>

\* document.verificationMethod || []
MethodsOf(document) ==
    IF document.verificationMethod.t = "undefined" THEN <<>>
    ELSE document.verificationMethod.a

\* DIDService.addVerificationMethod
AddVerificationMethod(did, method) ==
    /\ IF did \notin DOMAIN documents
       THEN /\ result' = [op |-> "addVerificationMethod",
                          error |-> "DIDError", did |-> did]
            /\ UNCHANGED documents
       ELSE /\ Len(MethodsOf(documents[did])) < MaxMethods
            /\ documents' = SetDocument(did,
                    [documents[did] EXCEPT
                        !.verificationMethod =
                            Arr(Append(MethodsOf(documents[did]), method))])
            /\ result' = [op |-> "addVerificationMethod", error |-> "none",
                          did |-> did]
    /\ UNCHANGED <<now, ticks, agents, nextAgentId, activities, caps, tokens,
                   activeCapabilities, attestations,
                   relationships, anomalies, trustScores, identities, calls>>

\* DIDService.addServiceEndpoint: a service id is added once only
AddServiceEndpoint(did, service) ==
    /\ IF did \notin DOMAIN documents
       THEN /\ result' = [op |-> "addServiceEndpoint", error |-> "DIDError",
                          did |-> did]
            /\ UNCHANGED documents
       ELSE IF service \in SeqToSet(documents[did].service)
       THEN /\ result' = [op |-> "addServiceEndpoint", error |-> "DIDError",
                          did |-> did]
            /\ UNCHANGED documents
       ELSE /\ documents' = SetDocument(did,
                    [documents[did] EXCEPT !.service = Append(@, service)])
            /\ result' = [op |-> "addServiceEndpoint", error |-> "none",
                          did |-> did]
    /\ UNCHANGED <<now, ticks, agents, nextAgentId, activities, caps, tokens,
                   activeCapabilities, attestations,
                   relationships, anomalies, trustScores, identities, calls>>

\* DIDService.deactivateDID
DeactivateDID(did) ==
    /\ IF did \notin DOMAIN documents
       THEN /\ result' = [op |-> "deactivateDID", error |-> "DIDError",
                          did |-> did]
            /\ UNCHANGED documents
       ELSE /\ documents' = DeleteDocument(did)
            /\ result' = [op |-> "deactivateDID", error |-> "none",
                          did |-> did]
    /\ UNCHANGED <<now, ticks, agents, nextAgentId, activities, caps, tokens,
                   activeCapabilities, attestations,
                   relationships, anomalies, trustScores, identities, calls>>

\* The digest of a message (sha256, hex): one per message
CreateHash(message) == <<"sha256", message>>

\* !method.publicKeyHex is false: the method carries a key that is not the
\* empty text
HasPublicKeyHex(method) == method.publicKeyHex # NoHex

\* What DIDService.verifyDIDOwnership does: false without a local document,
\* when the document's verificationMethod is undefined, or without a key in
\* the first verification method; with no method at all in the list, reading
\* the key of the first throws a TypeError.  Otherwise it calls
\* createHash(message), compares nothing with the signature, and returns
\* true.  The service imports createHash from utils/crypto, which exports no
\* such function: where the binding is left undefined the call throws a
\* TypeError (hashBound is whether the build bound the name).
VerifyDIDOwnershipResult(did, signature, message, hashBound) ==
    IF did \notin DOMAIN documents
    THEN [valid |-> FALSE, error |-> "none"]
    ELSE IF documents[did].verificationMethod.t = "undefined"
    THEN [valid |-> FALSE, error |-> "none"]
    ELSE IF Len(documents[did].verificationMethod.a) = 0
    THEN [valid |-> FALSE, error |-> "TypeError"]
    ELSE IF ~HasPublicKeyHex(documents[did].verificationMethod.a[1])
    THEN [valid |-> FALSE, error |-> "none"]
    ELSE IF ~hashBound
    THEN [valid |-> FALSE, error |-> "TypeError"]
    ELSE [valid |-> TRUE, error |-> "none"]

\* DIDService.verifyDIDOwnership
VerifyDIDOwnership(did, signature, message, hashBound) ==
    LET out == VerifyDIDOwnershipResult(did, signature, message, hashBound)
    IN  /\ result' = [op |-> "verifyDIDOwnership", error |-> out.error,
                      did |-> did, signature |-> signature,
                      message |-> message, valid |-> out.valid]
        /\ UNCHANGED <<now, ticks, agents, nextAgentId, documents, activities,
                       caps, tokens, activeCapabilities, attestations,
                       relationships, anomalies, trustScores, identities,
                       calls>>

\* The process stops and starts again: the maps held in memory (the DID
\* documents, the active capabilities) start empty and the calls in flight
\* are gone, an open transaction with them; the database stays
Restart ==
    /\ documents' = <<>>
    /\ activeCapabilities' = {}
    /\ calls' = [c \in DOMAIN calls |-> IdleCall]
    /\ result' = [op |-> "restart", error |-> "none"]
    /\ UNCHANGED <<now, ticks, agents, nextAgentId, activities, caps, tokens,
                   attestations, relationships, anomalies, trustScores,
                   identities>>

\* What this.resolver.resolve(did) may do for a DID with no local document:
\* return a document, return nothing, or throw
ResolverOutcomes == {"document", "nothing", "throws"}

\* A catch block that passes the error on
CatchResolveError_Rethrow(error) ==
    [threw |-> TRUE, didDocument |-> "null", error |-> error]

\* The catch block of resolveDID
CatchResolveError(error) ==
    [threw |-> FALSE, didDocument |-> "null", error |-> "invalidDid"]

\* The envelope resolveDID returns for a DID with no local document, from
\* what the resolver did
ResolveDIDResult(external) ==
    IF external = "throws"
    THEN CatchResolveError("ResolverError")
    ELSE IF external = "document"
    THEN [threw |-> FALSE, didDocument |-> "external", error |-> "none"]
    ELSE [threw |-> FALSE, didDocument |-> "null", error |-> "notFound"]

\* What resolveDID answers.  external is what the resolver did, "unasked"
\* when the document was found in the local map
ResolveDIDOutcome(did, external, out) ==
    [op |-> "resolveDID", did |-> did, external |-> external, out |-> out]

\* DIDService.resolveDID up to its await: this.documents.get(did), and the
\* envelope of a local document
ResolveDID(c, did) ==
    /\ Idle(c)
    /\ IF did \in DOMAIN documents
       THEN Return(c, ResolveDIDOutcome(did, "unasked",
                        [threw |-> FALSE, didDocument |-> "local",
                         error |-> "none"]))
       ELSE Suspend(c, [pc |-> "resolver", op |-> "resolveDID", did |-> did])
    /\ UNCHANGED <<now, ticks, agents, nextAgentId, documents, activities, caps,
                   tokens, activeCapabilities, attestations,
                   relationships, anomalies, trustScores, identities>>

\* await this.resolver.resolve(did) of resolveDID, and what is returned; the
\* local map is not read again
ResolveDIDResolver(c, external) ==
    /\ calls[c].pc = "resolver"
    /\ calls[c].op = "resolveDID"
    /\ Return(c, ResolveDIDOutcome(calls[c].did, external,
                                   ResolveDIDResult(external)))
    /\ UNCHANGED <<now, ticks, agents, nextAgentId, documents, activities, caps,
                   tokens, activeCapabilities, attestations,
                   relationships, anomalies, trustScores, identities>>

-----------------------------------------------------------------------------
(* Inputs *)

\* CapabilityRequest bodies; a field that is not given is not in the record
ReadAgents(subject) ==
    [subject |-> subject, actions |-> <<"read">>, resources |-> <<AgentsStar>>,
     conditions |-> <<>>, expiresInHours |-> 1]
ReadDelegate(subject) ==
    [subject |-> subject, actions |-> <<"read", "delegate">>,
     resources |-> <<AgentsSlash>>,
     conditions |-> <<Condition("context", "env", "equals", Str(Prod)),
                      Condition("rate_limit", "level", "greater_than", Num(3))>>]
AdminAll(subject) ==
    [subject |-> subject, actions |-> <<"admin", "read">>,
     resources |-> <<Star>>, conditions |-> <<>>, expiresInHours |-> 1]

Grant(issuer, request) == [issuer |-> issuer, request |-> request]

\* The issuer and request of the calls of issueCapability that are tried; the
\* last is the MCP tool's, whose issuer is the fixed 'did:ethr:system'
Grants ==
    {Grant(DidOf(1), ReadAgents(DidOf(2))),
     Grant(DidOf(1), AdminAll(DidOf(2))),
     Grant(DidOf(2), ReadDelegate(DidOf(1))),
     Grant(SystemDid, ReadAgents(DidOf(1)))}

\* The calls whose issuer is an agent
AgentGrants == {g \in Grants : g.issuer # SystemDid}

Contexts ==
    {EmptyContext,
     [env |-> Str(Prod), level |-> Num(5)],
     [env |-> Str(Dev), level |-> Num(1)],
     [env |-> Str(Prod), level |-> Str(Dev)]}

RequestActions == {"read", "write"}
RequestResources == {Agents123, Capabilities1, AgentsStar}

\* Requests that present a bad token
BadTokenRequests ==
    {VerifyRequest(Tampered(tokens[c], d), "read", Agents123, FALSE,
                   EmptyContext) : c \in DOMAIN tokens, d \in AgentDids}
    \cup {VerifyRequest(Malformed, "read", Agents123, FALSE, EmptyContext)}

\* Requests that present an issued token, without a context
PlainRequests ==
    {VerifyRequest(tokens[c], action, resource, FALSE, EmptyContext) :
        c \in DOMAIN tokens, action \in RequestActions,
        resource \in RequestResources}

\* Requests that present an issued token and a context
ContextRequests ==
    {VerifyRequest(tokens[c], action, Agents123, TRUE, context) :
        c \in DOMAIN tokens, action \in RequestActions, context \in Contexts}

VerifyRequests == PlainRequests \cup ContextRequests \cup BadTokenRequests

DelegationRestrictions ==
    {NoRestrictions,
     Restrictions(TRUE, <<"read">>, FALSE, <<>>),
     Restrictions(TRUE, <<"read", "admin">>, TRUE, <<Star>>)}

\* CreateAgentRequest bodies: an agent with no capabilities of its own, and
\* one created with the capabilities POST /capabilities requires
PlainAgent == [name |-> "worker", type |-> "autonomous"]
AdminAgent ==
    [name |-> "operator", type |-> "autonomous",
     capabilities |-> <<"admin", "delegate">>]

\* UpdateAgentRequest bodies
Suspension == [status |-> "suspended"]
Activation == [status |-> "active"]
StatusUpdates == {Activation, Suspension}

\* The call slots a specification uses, and the steps each handler takes
\* after its first
Slots(n) == 1..n

\* The slot of a call that is served while another call is in flight
OverlapSlots == {MaxCalls}

\* What a caller names an agent by: the text of its id, or its DID
AgentRefs == {AgentRef(a) : a \in AgentIds}
AgentNames == AgentRefs \cup AgentDids

CreateAgentSteps(c) == CreateAgentInsert(c) \/ CreateAgentCommit(c)
UpdateAgentSteps(c) ==
    UpdateAgentRow(c) \/ UpdateAgentLog(c) \/ UpdateAgentReload(c)
IssueSteps(c) == IssueCheckSubject(c) \/ IssueInsert(c) \/ IssueLog(c)
RevokeSteps(c) ==
    RevokeCheckAdmin(c) \/ RevokeUpdate(c) \/ RevokeGetSubject(c)
        \/ RevokeLog(c)
AuthenticateSteps(c) ==
    AuthenticateAgent(c) \/ AuthenticateCapability(c) \/ AuthenticateSubject(c)
VerifyAttestationSteps(c) ==
    VerifyAttestationIssuer(c) \/ VerifyAttestationSubject(c)
CalculateSteps(c) ==
    CalculateListAttestations(c) \/ CalculateGetActivity(c)
        \/ CalculateGetIncoming(c) \/ CalculateGetOutgoing(c)
        \/ CalculatePenalty(c) \/ StoreTrustScore(c) \/ UpdateTrustScore(c)
DetectSteps(c) ==
    DetectGetActivity(c) \/ DetectGetIncoming(c) \/ DetectGetOutgoing(c)
        \/ StoreAnomaly(c) \/ LogAnomaly(c)

-----------------------------------------------------------------------------
(* Specifications *)

NoCalls == [c \in 1..MaxCalls |-> IdleCall]

Init ==
    /\ now = HalfSecond
    /\ ticks = 0
    /\ agents = <<>>
    /\ nextAgentId = 1
    /\ documents = <<>>
    /\ activities = EmptyBag
    /\ caps = <<>>
    /\ tokens = <<>>
    /\ activeCapabilities = {}
    /\ attestations = <<>>
    /\ relationships = {}
    /\ anomalies = <<>>
    /\ trustScores = <<>>
    /\ identities = {}
    /\ calls = NoCalls
    /\ result = [op |-> "none"]

\* The store as two calls of createAgent leave it
InitAgents ==
    /\ now = HalfSecond
    /\ ticks = 0
    /\ agents = [a \in AgentIds |-> NewAgent(a, PlainAgent, NoText, HalfSecond)]
    /\ nextAgentId = MaxAgents + 1
    /\ documents = [d \in AgentDids |-> NewDocument(d, <<McpService>>)]
    /\ activities = SetToBag({Activity(a, "identity_created", HalfSecond, 0,
                                       FALSE) : a \in AgentIds})
    /\ caps = <<>>
    /\ tokens = <<>>
    /\ activeCapabilities = {}
    /\ attestations = <<>>
    /\ relationships = {}
    /\ anomalies = <<>>
    /\ trustScores = <<>>
    /\ identities = {[did |-> DidOf(a), agentId |-> a] : a \in AgentIds}
    /\ calls = NoCalls
    /\ result = [op |-> "none"]

\* The capability lifecycle: agents come, change and go; capabilities are
\* issued, verified, revoked and delegated, one call at a time
Next ==
    \/ Tick
    \/ \E c \in FreeCalls(1), a \in AgentRefs : DeleteAgent(c, a)
    \/ \E c \in Slots(1) : DeleteAgentCommit(c)
    \/ \E c \in FreeCalls(1), g \in Grants :
            IssueCapability(c, g.issuer, g.request)
    \/ \E c \in Slots(1) : IssueSteps(c)
    \/ \E c \in FreeCalls(1), k \in 1..MaxCaps, d \in Dids :
            RevokeCapability(c, k, d)
    \/ \E c \in Slots(1) : RevokeSteps(c)
    \/ \E c \in FreeCalls(1), k \in DOMAIN tokens :
            VerifyCapability(c, VerifyRequest(tokens[k], "read", Agents123,
                                              FALSE, EmptyContext))
    \/ \E c \in Slots(1) : VerifyCapabilitySelect(c)
    \/ \E k \in 1..MaxCaps, d \in AgentDids :
            DelegateCapability(k, d, DidOf(1), NoRestrictions, 0)

Spec == InitAgents /\ [][Next]_vars

\* Agents are suspended and reactivated while capabilities are issued to
\* them, delegated and verified
NextStanding ==
    \/ \E c \in FreeCalls(1), a \in AgentRefs, r \in StatusUpdates :
            UpdateAgent(c, a, r)
    \/ \E c \in Slots(1) : UpdateAgentSteps(c)
    \/ \E c \in FreeCalls(1), g \in Grants :
            IssueCapability(c, g.issuer, g.request)
    \/ \E c \in Slots(1) : IssueSteps(c)
    \/ \E c \in OverlapSlots, r \in PlainRequests : VerifyCapability(c, r)
    \/ \E c \in OverlapSlots : VerifyCapabilitySelect(c)
    \/ \E k \in 1..MaxCaps, d \in AgentDids :
            DelegateCapability(k, d, DidOf(1), NoRestrictions, 0)

SpecStanding == InitAgents /\ [][NextStanding]_vars

\* Calls that overlap: capabilities are issued and revoked while agents are
\* suspended and deleted
OverlapGrants == {Grant(DidOf(1), ReadAgents(DidOf(2)))}

NextOverlap ==
    \/ \E c \in FreeCalls(2), a \in AgentRefs : UpdateAgent(c, a, Suspension)
    \/ \E c \in Slots(2) : UpdateAgentSteps(c)
    \/ \E c \in FreeCalls(2), a \in AgentRefs : DeleteAgent(c, a)
    \/ \E c \in Slots(2) : DeleteAgentCommit(c)
    \/ \E c \in FreeCalls(2), g \in OverlapGrants :
            IssueCapability(c, g.issuer, g.request)
    \/ \E c \in Slots(2) : IssueSteps(c)
    \/ \E c \in FreeCalls(2), k \in 1..MaxCaps :
            RevokeCapability(c, k, DidOf(1))
    \/ \E c \in Slots(2) :
            RevokeUpdate(c) \/ RevokeGetSubject(c) \/ RevokeLog(c)

SpecOverlap == InitAgents /\ [][NextOverlap]_vars

\* Verification: every request against capabilities that are issued, revoked
\* and left to expire
NextVerify ==
    \/ Tick
    \/ \E c \in FreeCalls(1), g \in AgentGrants :
            IssueCapability(c, g.issuer, g.request)
    \/ \E c \in Slots(1) : IssueSteps(c)
    \/ \E c \in FreeCalls(1), r \in VerifyRequests : VerifyCapability(c, r)
    \/ \E c \in Slots(1) : VerifyCapabilitySelect(c)
    \/ \E c \in OverlapSlots, k \in 1..MaxCaps :
            RevokeCapability(c, k, DidOf(1))
    \/ \E c \in OverlapSlots : RevokeSteps(c)

SpecVerify == InitAgents /\ [][NextVerify]_vars

\* Revocation among all the other operations: agents are created, suspended
\* and deleted, capabilities are issued, delegated and verified, and
\* revoked by their issuer or their subject, and verifyCapability is served
\* beside the other calls
LifecycleGrants ==
    {Grant(DidOf(1), ReadAgents(DidOf(2))),
     Grant(DidOf(2), ReadDelegate(DidOf(1)))}

NextLifecycle ==
    \/ Tick
    \/ \E c \in FreeCalls(1) : UpdateAgent(c, AgentRef(2), Suspension)
    \/ \E c \in Slots(1) : UpdateAgentSteps(c)
    \/ \E c \in FreeCalls(1) : DeleteAgent(c, AgentRef(1))
    \/ \E c \in Slots(1) : DeleteAgentCommit(c)
    \/ \E c \in FreeCalls(1), g \in LifecycleGrants :
            IssueCapability(c, g.issuer, g.request)
    \/ \E c \in Slots(1) : IssueSteps(c)
    \/ \E c \in FreeCalls(1), k \in 1..MaxCaps :
            RevokeCapability(c, k, DidOf(1))
    \/ \E c \in Slots(1) : RevokeSteps(c)
    \/ \E k \in 1..MaxCaps, d \in AgentDids :
            DelegateCapability(k, d, DidOf(1), NoRestrictions, 0)
    \/ \E c \in OverlapSlots, k \in DOMAIN tokens :
            VerifyCapability(c, VerifyRequest(tokens[k], "read", Agents123,
                                              FALSE, EmptyContext))
    \/ \E c \in OverlapSlots : VerifyCapabilitySelect(c)

SpecLifecycle == InitAgents /\ [][NextLifecycle]_vars

\* The verification-style operations of the three services; resolveDID is
\* served beside the other calls.  The store holds no attestation:
\* createAttestation, the one writer of the table, throws before its INSERT.
LookupGrants == {Grant(DidOf(1), ReadAgents(DidOf(2)))}

LookupRequests ==
    {r \in PlainRequests : r.action = "read" /\ r.resource = AgentsStar}
    \cup BadTokenRequests

NextLookup ==
    \/ Tick
    \/ \E c \in FreeCalls(1), a \in AgentRefs : DeleteAgent(c, a)
    \/ \E c \in Slots(1) : DeleteAgentCommit(c)
    \/ \E c \in FreeCalls(1), g \in LookupGrants :
            IssueCapability(c, g.issuer, g.request)
    \/ \E c \in Slots(1) : IssueSteps(c)
    \/ \E c \in FreeCalls(1), k \in 1..MaxCaps :
            RevokeCapability(c, k, DidOf(1))
    \/ \E c \in Slots(1) :
            RevokeUpdate(c) \/ RevokeGetSubject(c) \/ RevokeLog(c)
    \/ \E c \in FreeCalls(1), r \in LookupRequests : VerifyCapability(c, r)
    \/ \E c \in Slots(1) : VerifyCapabilitySelect(c)
    \/ \E c \in FreeCalls(1), a \in 1..MaxAttestRows : VerifyAttestation(c, a)
    \/ \E c \in OverlapSlots, d \in Dids : ResolveDID(c, d)
    \/ \E c \in OverlapSlots, x \in ResolverOutcomes :
            ResolveDIDResolver(c, x)

SpecLookup == InitAgents /\ [][NextLookup]_vars

\* Condition evaluation: capabilities whose conditions use each operator,
\* verified with and without a context
Ro == <<"r", "o">>

ConditionLists ==
    {<<Condition("context", "env", "equals", Str(Prod)),
       Condition("rate_limit", "level", "greater_than", Num(3))>>,
     <<Condition("context", "env", "not_equals", Str(Dev))>>,
     <<Condition("rate_limit", "level", "less_than", Num(3)),
       Condition("context", "env", "contains", Str(Ro))>>,
     <<Condition("context", "env", "in", Arr(<<Str(Prod), Str(Dev)>>)),
       Condition("time", "level", "before", Num(3))>>,
     <<Condition("context", "constructor", "equals", Undefined),
       Condition("rate_limit", "toString", "less_than", Num(3))>>}

Conditional(subject, conditions) ==
    [subject |-> subject, actions |-> <<"read">>, resources |-> <<AgentsSlash>>,
     conditions |-> conditions]

ConditionGrants ==
    {Grant(DidOf(1), Conditional(DidOf(2), conditions)) :
        conditions \in ConditionLists}

ConditionRequests ==
    {VerifyRequest(tokens[c], "read", Agents123, FALSE, EmptyContext) :
        c \in DOMAIN tokens}
    \cup {VerifyRequest(tokens[c], "read", Agents123, TRUE, context) :
            c \in DOMAIN tokens, context \in Contexts}

NextConditions ==
    \/ \E c \in FreeCalls(1), g \in ConditionGrants :
            IssueCapability(c, g.issuer, g.request)
    \/ \E c \in Slots(1) : IssueSteps(c)
    \/ \E c \in FreeCalls(1), r \in ConditionRequests :
            VerifyCapability(c, r)
    \/ \E c \in Slots(1) : VerifyCapabilitySelect(c)

SpecConditions == InitAgents /\ [][NextConditions]_vars

\* Issuing: bodies with every kind of expiresInHours, and bodies the schema
\* rejects, through the route, through the MCP tool, and by a call of
\* issueCapability itself, which no schema stands before
Body(subject, actions) ==
    [subject |-> subject, actions |-> actions, resources |-> <<AgentsStar>>,
     conditions |-> <<>>]

Lifetime(body, hours) ==
    [k \in DOMAIN body \cup {"expiresInHours"} |->
        IF k = "expiresInHours" THEN hours ELSE body[k]]

Lifetimes == {0, 1, 2, MaxExpiresInHours + 1}

Bodies ==
    {Body(DidOf(2), <<"read">>)}
    \cup {Lifetime(Body(DidOf(2), <<"read">>), hours) : hours \in Lifetimes}
    \cup {Body(DidOf(1), <<>>),
          Body(AgentRef(2), <<"read">>),
          Body(DidOf(2), <<"administrator">>),
          [Body(DidOf(2), <<"read">>) EXCEPT !.conditions =
              <<Condition("custom", "env", "equals", Str(Prod))>>],
          [Body(DidOf(2), <<"read">>) EXCEPT !.conditions =
              <<Condition("context", "env", "regex", Str(Prod))>>]}

\* The bodies given to issueCapability itself.  Times are whole milliseconds
\* in TLC's integers, which hold a lifetime of 596 hours at most: the
\* lifetime above the schema's maximum is tried through the route and the
\* MCP tool only, where no expiration is computed from it.
DirectBodies ==
    {Body(DidOf(2), <<"read">>)}
    \cup {Lifetime(Body(DidOf(2), <<"read">>), hours) :
            hours \in {h \in Lifetimes : h <= MaxExpiresInHours}}

\* The bearer tokens presented: the session token of an agent (a JWT under
\* the service secret that names the agent by its DID or by its id), a
\* capability token, or none
SessionToken(did) ==
    [jti |-> 0, sub |-> did, iss |-> did, iat |-> 0, nbf |-> 0,
     exp |-> MaxExpiresInHours * 3600,
     sig |-> "valid"]

NextIssue ==
    \/ Tick
    \/ \E c \in FreeCalls(1), r \in {PlainAgent, AdminAgent} :
            CreateAgent(c, r, NoText)
    \/ \E c \in Slots(1) : CreateAgentSteps(c)
    \/ \E c \in FreeCalls(1), d \in AgentDids \cup {AgentRef(1)},
          body \in Bodies :
            PostCapability(c, TRUE, SessionToken(d), body)
    \/ \E c \in Slots(1) : AuthenticateAgent(c) \/ AuthenticateCapability(c)
    \/ \E c \in Slots(1) : IssueCheckIssuer(c)
    \/ \E c \in FreeCalls(1), body \in Bodies : McpIssueCapability(c, body)
    \/ \E c \in FreeCalls(1), body \in DirectBodies :
            IssueCapability(c, DidOf(1), body)
    \/ \E c \in Slots(1) : IssueSteps(c)

SpecIssue == Init /\ [][NextIssue]_vars

\* Delegation: every kind of restrictions on every capability
NextDelegate ==
    \/ Tick
    \/ \E c \in FreeCalls(1), g \in Grants :
            IssueCapability(c, g.issuer, g.request)
    \/ \E c \in Slots(1) : IssueSteps(c)
    \/ \E k \in 1..MaxCaps, d \in AgentDids, r \in DelegationRestrictions,
          h \in {0, 1} : DelegateCapability(k, d, DidOf(1), r, h)

SpecDelegate == InitAgents /\ [][NextDelegate]_vars

\* Attestations: created, verified and revoked while agents change and the
\* clock moves, with two calls in flight at most.  No call of
\* createAttestation gets as far as its INSERT, so the table stays empty:
\* verifyAttestation and revokeAttestation end at their SELECT.
AttestationRequest(type, subject, hours) ==
    [type |-> type, subject |-> subject, claims |-> <<"member">>,
     expiresInHours |-> hours]

AttestationRequests ==
    {AttestationRequest("trust_assertion", DidOf(2), 1),
     AttestationRequest("membership", SystemDid, 0)}

ChainTypes == {"any", "trust_assertion"}

NextAttest ==
    \/ Tick
    \/ \E c \in FreeCalls(2) : UpdateAgent(c, AgentRef(1), Suspension)
    \/ \E c \in Slots(2) : UpdateAgentSteps(c)
    \/ \E c \in FreeCalls(2), r \in AttestationRequests :
            CreateAttestation(c, DidOf(1), r)
    \/ \E c \in Slots(2) : CreateAttestationSign(c)
    \/ \E c \in FreeCalls(2), a \in 1..MaxAttestations :
            VerifyAttestation(c, a)
    \/ \E c \in FreeCalls(2), a \in 1..MaxAttestations, d \in AgentDids :
            RevokeAttestation(c, a, d)

SpecAttest == InitAgents /\ [][NextAttest]_vars

\* A row of attestations as the schema admits it: its proof is the JSON
\* object the INSERT of createAttestation would write, a JSON string that
\* holds the text of such an object, or the JSON null.
ProofKinds == {"object", "text", "null"}

StoredAttestation(type, issuer, subject, issuedAt, expiresAt, proof) ==
    [type |-> type, issuer |-> issuer, subject |-> subject,
     claims |-> <<"member">>, issuedAt |-> issuedAt,
     expiresAt |-> expiresAt, revoked |-> FALSE, revokedAt |-> 0,
     revokedBy |-> SystemDid, hasProof |-> proof # "null",
     objects |-> IF proof = "object" THEN {"proof"} ELSE {}]

(* The chain of attestations is checked over every table the schema      *)
(* admits, which is more than the program holds: the program itself      *)
(* stores no attestation, and buildAttestationChain then returns the     *)
(* empty chain.  What holds of every such table holds of the program's.  *)
ChainTables ==
    {<<StoredAttestation("trust_assertion", DidOf(1), DidOf(2), HalfSecond,
                         MsPerHour, first),
       StoredAttestation("membership", DidOf(1), second, HalfSecond, 0,
                         "null")>> :
        first \in ProofKinds, second \in AgentDids}
    \cup {<<StoredAttestation("membership", DidOf(2), DidOf(2), HalfSecond, 0,
                              "object")>>}

InitChain ==
    /\ now = HalfSecond
    /\ ticks = 0
    /\ agents = [a \in AgentIds |-> NewAgent(a, PlainAgent, NoText, HalfSecond)]
    /\ nextAgentId = MaxAgents + 1
    /\ documents = [d \in AgentDids |-> NewDocument(d, <<McpService>>)]
    /\ activities = SetToBag({Activity(a, "identity_created", HalfSecond, 0,
                                       FALSE) : a \in AgentIds})
    /\ caps = <<>>
    /\ tokens = <<>>
    /\ activeCapabilities = {}
    /\ attestations \in ChainTables
    /\ relationships = {}
    /\ anomalies = <<>>
    /\ trustScores = <<>>
    /\ identities = {[did |-> DidOf(a), agentId |-> a] : a \in AgentIds}
    /\ calls = NoCalls
    /\ result = [op |-> "none"]

\* Chains over these tables, one call at a time, while attestations are
\* revoked and the clock moves
NextChain ==
    \/ Advance(MaxChainTicks)
    \/ \E c \in FreeCalls(1), a \in 1..MaxAttestations, d \in AgentDids :
            RevokeAttestation(c, a, d)
    \/ \E c \in Slots(1) : RevokeAttestationUpdate(c)
    \/ \E c \in FreeCalls(1), d \in AgentDids, t \in ChainTypes :
            BuildAttestationChain(c, d, t)
    \/ \E c \in Slots(1) : BuildAttestationChainFollow(c)

SpecChain == InitChain /\ [][NextChain]_vars

\* The DID registry: documents are created, replaced, updated with every
\* kind of field (the id of another DID included), extended and deactivated
DocumentUpdates ==
    {[id |-> SystemDid],
     [id |-> DidOf(2), controller |-> DidOf(2)],
     [controller |-> DidOf(1), service |-> <<>>]}

DidCreations ==
    {[method |-> "ethr", publicKey |-> Key(FALSE, 1), services |-> <<>>],
     [method |-> "ethr", publicKey |-> Key(TRUE, 2),
      services |-> <<McpService>>],
     [method |-> "ethr", publicKey |-> NoKey, services |-> <<>>],
     [method |-> "key", publicKey |-> NoKey, services |-> <<>>],
     [method |-> "web", publicKey |-> NoKey, services |-> <<>>]}

\* A second verification method, with a key of its own
SecondMethod == VerificationMethod("keys-2", MaxAgents)

DidTargets ==
    {DidOf(1), DidOf(2), GenerateDID("key", 1), GenerateDID("key", 2)}

NextDid ==
    \/ \E c \in FreeCalls(1) : CreateAgent(c, PlainAgent, NoText)
    \/ \E c \in Slots(1) : CreateAgentSteps(c)
    \/ \E x \in DidCreations :
            /\ x.publicKey.hex < nextAgentId
            /\ CreateDID(x.method, x.publicKey, x.services)
    \/ \E d \in DidTargets, u \in DocumentUpdates : UpdateDID(d, u)
    \/ \E d \in DidTargets : AddVerificationMethod(d, SecondMethod)
    \/ \E d \in DidTargets : AddServiceEndpoint(d, McpService)
    \/ \E d \in DidTargets : DeactivateDID(d)
    \/ \E c \in FreeCalls(1) : ResolveDID(c, DidOf(1))
    \/ \E c \in Slots(1) : ResolveDIDResolver(c, "nothing")

SpecDid == Init /\ [][NextDid]_vars

\* Attestation graphs with cycles: every agent may attest itself and the
\* other, with a trust_assertion or a membership
AttestationTypes == {"trust_assertion", "membership"}

CycleRows ==
    {StoredAttestation(t, i, s, HalfSecond, 0, "text") :
        t \in AttestationTypes, i \in AgentDids, s \in AgentDids}

\* The place of a row among CycleRows
RowRank(row) ==
    (IF row.type = "membership" THEN 4 ELSE 0)
    + (IF row.issuer = DidOf(2) THEN 2 ELSE 0)
    + (IF row.subject = DidOf(2) THEN 1 ELSE 0)

\* The tables tried.  The ids of the rows are labels and every listing
\* returns its rows in any order, so one table stands for those that hold
\* the same rows.
CycleTables ==
    {table \in UNION {[1..n -> CycleRows] : n \in 1..MaxAttestations} :
        \A i, j \in DOMAIN table :
            i < j => RowRank(table[i]) <= RowRank(table[j])}

InitCycle ==
    /\ now = HalfSecond
    /\ ticks = 0
    /\ agents = [a \in AgentIds |-> NewAgent(a, PlainAgent, NoText, HalfSecond)]
    /\ nextAgentId = MaxAgents + 1
    /\ documents = [d \in AgentDids |-> NewDocument(d, <<McpService>>)]
    /\ activities = SetToBag({Activity(a, "identity_created", HalfSecond, 0,
                                       FALSE) : a \in AgentIds})
    /\ caps = <<>>
    /\ tokens = <<>>
    /\ activeCapabilities = {}
    /\ attestations \in CycleTables
    /\ relationships = {}
    /\ anomalies = <<>>
    /\ trustScores = <<>>
    /\ identities = {[did |-> DidOf(a), agentId |-> a] : a \in AgentIds}
    /\ calls = NoCalls
    /\ result = [op |-> "none"]

NextCycle ==
    \/ \E c \in FreeCalls(1), d \in AgentDids, t \in ChainTypes :
            BuildAttestationChain(c, d, t)
    \/ \E c \in Slots(1) : BuildAttestationChainFollow(c)

SpecCycle == InitCycle /\ [][NextCycle]_vars

\* The DID operations on agents across restarts of the process
ApiService == "#api"

NextRestart ==
    \/ \E c \in FreeCalls(1) : CreateAgent(c, PlainAgent, NoText)
    \/ \E c \in Slots(1) : CreateAgentSteps(c)
    \/ Restart
    \/ \E c \in FreeCalls(1), a \in AgentRefs : DeleteAgent(c, a)
    \/ \E c \in Slots(1) : DeleteAgentCommit(c)
    \/ \E c \in FreeCalls(1), d \in AgentDids : ResolveDID(c, d)
    \/ \E c \in Slots(1), e \in ResolverOutcomes : ResolveDIDResolver(c, e)
    \/ \E d \in AgentDids : AddVerificationMethod(d, SecondMethod)
    \/ \E d \in AgentDids : AddServiceEndpoint(d, ApiService)

SpecRestart == Init /\ [][NextRestart]_vars

\* Capabilities to read agents and to authenticate against the system
Authenticating(subject) ==
    [subject |-> subject, actions |-> <<"authenticate">>,
     resources |-> <<System>>, conditions |-> <<>>, expiresInHours |-> 1]

\* The last names its subject by the agent's id
AuthGrants ==
    {Grant(DidOf(1), ReadAgents(DidOf(2))),
     Grant(DidOf(1), Authenticating(DidOf(2))),
     Grant(DidOf(1), Authenticating(AgentRef(2)))}

\* Requests that pass the middleware with a bearer token, or with none
NextAuth ==
    \/ Tick
    \/ \E c \in FreeCalls(1), a \in AgentRefs : DeleteAgent(c, a)
    \/ \E c \in Slots(1) : DeleteAgentCommit(c)
    \/ \E c \in FreeCalls(1), g \in AuthGrants :
            IssueCapability(c, g.issuer, g.request)
    \/ \E c \in Slots(1) : IssueSteps(c)
    \/ \E c \in FreeCalls(1), k \in 1..MaxCaps :
            RevokeCapability(c, k, DidOf(1))
    \/ \E c \in Slots(1) :
            RevokeUpdate(c) \/ RevokeGetSubject(c) \/ RevokeLog(c)
    \/ \E c \in FreeCalls(1), k \in DOMAIN tokens :
            AuthenticateToken(c, TRUE, tokens[k])
    \/ \E c \in FreeCalls(1), k \in DOMAIN tokens, d \in AgentDids :
            AuthenticateToken(c, TRUE, Tampered(tokens[k], d))
    \/ \E c \in FreeCalls(1) : AuthenticateToken(c, FALSE, Malformed)
    \/ \E c \in Slots(1) : AuthenticateSteps(c)

SpecAuth == InitAgents /\ [][NextAuth]_vars

\* A signature: the key that made it and the digest it was made over
Signature(key, digest) == [key |-> key, digest |-> digest]

Messages == {"challenge-1", "challenge-2"}

\* The signatures presented: by the key of agent 1 or of agent 2 over the
\* digest of the first message
Signatures == {Signature(k, CreateHash("challenge-1")) : k \in AgentIds}

\* Updates of a document that leave it a verificationMethod with no method,
\* and none at all
MethodUpdates ==
    {[verificationMethod |-> Arr(<<>>)], [verificationMethod |-> Undefined]}

\* The DIDs whose ownership is verified: those of the agents and the DID
\* createDID derives from the key '0x'
OwnedDids == AgentDids \cup {GenerateDID("ethr", NoHex)}

\* The identity manager with statements that fail, and the registry's own
\* operations beside it
NextAtomic ==
    \/ \E c \in FreeCalls(1) : CreateAgent(c, PlainAgent, NoText)
    \/ \E c \in Slots(1) : CreateAgentSteps(c)
    \/ \E c \in Slots(1) : CreateAgentFails(c)
    \/ \E c \in FreeCalls(1), a \in AgentNames, r \in StatusUpdates :
            UpdateAgent(c, a, r)
    \/ \E c \in Slots(1) : UpdateAgentSteps(c)
    \/ \E c \in FreeCalls(1), a \in AgentNames : DeleteAgent(c, a)
    \/ \E c \in Slots(1) : DeleteAgentCommit(c)
    \/ \E c \in Slots(1) : DeleteAgentFails(c)
    \/ \E d \in AgentDids : DeactivateDID(d)
    \/ \E d \in AgentDids : AddVerificationMethod(d, SecondMethod)
    \/ \E c \in FreeCalls(1), d \in AgentDids : ResolveDID(c, d)
    \/ \E c \in Slots(1) : ResolveDIDResolver(c, "nothing")
    \/ CreateDID("ethr", Key(TRUE, NoHex), <<>>)
    \/ \E d \in AgentDids, u \in MethodUpdates : UpdateDID(d, u)
    \/ \E d \in OwnedDids, sg \in Signatures, m \in Messages,
            hashBound \in BOOLEAN :
            VerifyDIDOwnership(d, sg, m, hashBound)

SpecAtomic == Init /\ [][NextAtomic]_vars

\* The trust engine is looked at ten days after the epoch
TrustEpoch == 240 * MsPerHour

\* What an agent has done: each profile is a bag of activity rows
ActivityProfiles ==
    {"none", "created", "adminGrant", "twoGrants", "halfWeek", "idle",
     "mixed"}

Profile(name, a) ==
    IF name = "created"
    THEN SetToBag({Activity(a, "identity_created", TrustEpoch, 0, FALSE)})
    ELSE IF name = "adminGrant"
    THEN SetToBag({Activity(a, "identity_created", 0, 0, FALSE),
                   Activity(a, "capability_granted", TrustEpoch, 1, TRUE)})
    ELSE IF name = "twoGrants"
    THEN SetToBag({Activity(a, "identity_created", 0, 0, FALSE),
                   Activity(a, "capability_granted", TrustEpoch, 1, TRUE),
                   Activity(a, "capability_granted", TrustEpoch, 2, FALSE)})
    ELSE IF name = "halfWeek"
    THEN SetToBag({Activity(a, "identity_created",
                            TrustEpoch - 84 * MsPerHour, 0, FALSE)})
    ELSE IF name = "idle"
    THEN SetToBag({Activity(a, "identity_created",
                            TrustEpoch - 192 * MsPerHour, 0, FALSE)})
    ELSE IF name = "mixed"
    THEN SetToBag({Activity(a, "capability_granted",
                            TrustEpoch - MsPerHour, 1, FALSE),
                   Activity(a, "capability_revoked",
                            TrustEpoch - MsPerHour, 1, FALSE),
                   Activity(a, "identity_created", 0, 0, FALSE)})
    ELSE EmptyBag

\* A row of anomalies; the confidence is a DECIMAL(3,2), held in hundredths
StoredAnomaly(agentId, anomalyType, severity, confidence, resolved) ==
    [agentId |-> agentId, anomalyType |-> anomalyType, severity |-> severity,
     confidence |-> confidence, detectedAt |-> TrustEpoch - MsPerHour,
     resolved |-> resolved,
     resolvedAt |-> IF resolved THEN TrustEpoch - MsPerHour ELSE 0]

\* A row of agent_relationships; the trust level is a DECIMAL(3,2), held in
\* hundredths
Relationship(source, target, type, trustLevel) ==
    [sourceAgentId |-> source, targetAgentId |-> target,
     relationshipType |-> type, trustLevel |-> trustLevel]

\* A snapshot of the tables the trust engine reads
Snapshot(first, second, createdAt, attested, related, flagged) ==
    [first |-> first, second |-> second, createdAt |-> createdAt,
     attestations |-> attested, relationships |-> related,
     anomalies |-> flagged]

\* No call of createAttestation stores a row (signData throws before the
\* INSERT): the trust engine reads no attestation
NoAttestations == <<>>

\* No call of createRelationship stores a row (its INSERT names a column the
\* table does not have); the rows tried are rows the schema admits: one of
\* the default level, and rows of one agent to itself and to the other
NoRelationships == {}
OneRelationship == {Relationship(1, 2, "peer", DefaultTrustLevel)}
OwnRelationships ==
    {Relationship(1, 1, "peer", 90), Relationship(1, 2, "peer", 30),
     Relationship(2, 1, "peer", 50), Relationship(2, 1, "delegate", 50)}

NoAnomalies == <<>>
SomeResolved ==
    <<StoredAnomaly(1, "behavior_deviation", "low", ToDecimal2(Half), FALSE),
      StoredAnomaly(1, "capability_escalation", "high",
                    ToDecimal2(EscalationConfidence), TRUE),
      StoredAnomaly(2, "trust_manipulation", "medium",
                    ToDecimal2(ManipulationConfidence), FALSE),
      StoredAnomaly(1, "unusual_access_pattern", "high", ToDecimal2(Half),
                    FALSE)>>
ManyUnresolved ==
    <<StoredAnomaly(1, "unusual_access_pattern", "critical", ToDecimal2(One),
                    FALSE),
      StoredAnomaly(1, "capability_escalation", "high",
                    ToDecimal2(EscalationConfidence), FALSE),
      StoredAnomaly(1, "collusion_pattern", "medium",
                    ToDecimal2(ManipulationConfidence), FALSE)>>

\* Three anomalies one run of detectAnomalies stores in one millisecond for an
\* agent with 51 activities in the last hour
TiedUnresolved ==
    <<StoredAnomaly(1, "trust_manipulation", "medium",
                    ToDecimal2(ManipulationConfidence), FALSE),
      StoredAnomaly(1, "capability_escalation", "high",
                    ToDecimal2(EscalationConfidence), FALSE),
      StoredAnomaly(1, "unusual_access_pattern", "high", 51, FALSE)>>

\* The snapshots tried: an agent alone with each activity profile, new or
\* ten days old; two agents alike; agents with relationships and with
\* anomalies on record
Snapshots ==
    {Snapshot(p, "none", TrustEpoch, NoAttestations, NoRelationships,
              NoAnomalies) :
        p \in {"none", "created"}}
    \cup {Snapshot(p, "none", 0, NoAttestations, NoRelationships,
                   NoAnomalies) :
            p \in ActivityProfiles \ {"created"}}
    \cup {Snapshot("created", "created", TrustEpoch, NoAttestations,
                   NoRelationships, NoAnomalies)}
    \cup {Snapshot(p, p, 0, NoAttestations, r, NoAnomalies) :
            p \in {"none", "idle", "mixed"},
            r \in {NoRelationships, OneRelationship}}
    \cup {Snapshot(p, "none", 0, NoAttestations, OneRelationship, f) :
            p \in {"none", "mixed"}, f \in {SomeResolved, ManyUnresolved}}
    \cup {Snapshot("none", "none", 0, NoAttestations, NoRelationships,
                   TiedUnresolved)}
    \cup {Snapshot(p, "none", 0, NoAttestations, OwnRelationships, f) :
            p \in {"none", "mixed"}, f \in {SomeResolved, ManyUnresolved}}

TrustAgent(a, status, createdAt) ==
    [NewAgent(a, PlainAgent, NoText, createdAt) EXCEPT !.status = status]

InitTrust ==
    /\ now = TrustEpoch
    /\ ticks = 0
    /\ nextAgentId = MaxAgents + 1
    /\ documents = [d \in AgentDids |-> NewDocument(d, <<McpService>>)]
    /\ \E s \in Snapshots :
          /\ agents = [a \in AgentIds |->
                        TrustAgent(a, IF a = 2 /\ s.second # s.first
                                      THEN "suspended" ELSE "active",
                                   s.createdAt)]
          /\ activities = Profile(s.first, 1) (+) Profile(s.second, 2)
          /\ attestations = s.attestations
          /\ relationships = s.relationships
          /\ anomalies = s.anomalies
    /\ caps = <<>>
    /\ tokens = <<>>
    /\ activeCapabilities = {}
    /\ trustScores = <<>>
    /\ identities = {[did |-> DidOf(a), agentId |-> a] : a \in AgentIds}
    /\ calls = NoCalls
    /\ result = [op |-> "none"]

\* What the trust engine is asked about: each agent by its id, the id of no
\* agent, and the first agent by its DID
TrustNames ==
    {AgentRef(a) : a \in 1..(MaxAgents + 1)} \cup {DidOf(1)}

\* Calculations of the trust score, one call at a time, while anomalies are
\* resolved
NextTrust ==
    \/ \E c \in FreeCalls(1), a \in TrustNames : CalculateTrustScore(c, a)
    \/ \E c \in Slots(1) : CalculateSteps(c)
    \/ \E i \in 1..MaxResolved : ResolveAnomaly(i)

SpecTrust == InitTrust /\ [][NextTrust]_vars

\* Detection and the background sweep, for agents alone with what they did
SweepSnapshots ==
    {Snapshot(p, "none", 0, NoAttestations, NoRelationships, NoAnomalies) :
        p \in {"none", "adminGrant", "twoGrants", "mixed"}}
    \cup {Snapshot("adminGrant", "adminGrant", 0, NoAttestations,
                   OneRelationship, NoAnomalies)}

InitSweep ==
    /\ now = TrustEpoch
    /\ ticks = 0
    /\ nextAgentId = MaxAgents + 1
    /\ documents = [d \in AgentDids |-> NewDocument(d, <<McpService>>)]
    /\ \E s \in SweepSnapshots :
          /\ agents = [a \in AgentIds |->
                        TrustAgent(a, IF a = 2 /\ s.second # s.first
                                      THEN "suspended" ELSE "active",
                                   s.createdAt)]
          /\ activities = Profile(s.first, 1) (+) Profile(s.second, 2)
          /\ attestations = s.attestations
          /\ relationships = s.relationships
          /\ anomalies = s.anomalies
    /\ caps = <<>>
    /\ tokens = <<>>
    /\ activeCapabilities = {}
    /\ trustScores = <<>>
    /\ identities = {[did |-> DidOf(a), agentId |-> a] : a \in AgentIds}
    /\ calls = NoCalls
    /\ result = [op |-> "none"]

NextSweep ==
    \/ \E c \in FreeCalls(1), a \in TrustNames : DetectAnomalies(c, a)
    \/ \E c \in Slots(1) : DetectSteps(c)
    \/ \E c \in FreeCalls(1) : RunBackgroundJobs(c)
    \/ \E c \in Slots(1) : CalculateGetAgent(c)
    \/ \E c \in Slots(1) : CalculateSteps(c)
    \/ \E c \in Slots(1) : DetectGetAgent(c)

SpecSweep == InitSweep /\ [][NextSweep]_vars

\* Calls of calculateTrustScore for one agent that overlap, while anomalies
\* are resolved
RaceSnapshots ==
    {Snapshot("none", "none", 0, NoAttestations, NoRelationships,
              ManyUnresolved)}

InitRace ==
    /\ now = TrustEpoch
    /\ ticks = 0
    /\ nextAgentId = MaxAgents + 1
    /\ documents = [d \in AgentDids |-> NewDocument(d, <<McpService>>)]
    /\ \E s \in RaceSnapshots :
          /\ agents = [a \in AgentIds |-> TrustAgent(a, "active", s.createdAt)]
          /\ activities = EmptyBag
          /\ attestations = s.attestations
          /\ relationships = s.relationships
          /\ anomalies = s.anomalies
    /\ caps = <<>>
    /\ tokens = <<>>
    /\ activeCapabilities = {}
    /\ trustScores = <<>>
    /\ identities = {[did |-> DidOf(a), agentId |-> a] : a \in AgentIds}
    /\ calls = NoCalls
    /\ result = [op |-> "none"]

NextRace ==
    \/ \E c \in FreeCalls(2) : CalculateTrustScore(c, AgentRef(1))
    \/ \E c \in Slots(2) : CalculateSteps(c)
    \/ ResolveAnomaly(1)

SpecRace == InitRace /\ [][NextRace]_vars

-----------------------------------------------------------------------------
(* Properties of the capability lifecycle *)

\* The last operation verified an issued, untampered token
VerifiedIssuedToken ==
    /\ result.op = "verifyCapability"
    /\ \E c \in DOMAIN tokens : result.request.token = tokens[c]

\* The stored capability the verified token names
VerifiedCapability == caps[result.request.token.jti]

\* A trailing-star pattern such as 'agents/*' stands for what follows its prefix
PatternMatches(pattern, requested) ==
    /\ Len(pattern) >= 1
    /\ pattern[Len(pattern)] = "*"
    /\ StartsWith(requested, SubSeq(pattern, 1, Len(pattern) - 1))

\* The resource rule as documented: equality, prefix, '*' or a pattern
DocumentedResourceMatch(resources, requested) ==
    \E i \in 1..Len(resources) :
        \/ requested = resources[i]
        \/ StartsWith(requested, resources[i])
        \/ resources[i] = Star
        \/ PatternMatches(resources[i], requested)

\* A condition that evaluates true against the context of a request
ConditionHolds(c, hasContext, context) ==
    /\ hasContext
    /\ c.parameter \in DOMAIN context
    /\ CASE c.operator = "equals" -> StrictEquals(context[c.parameter], c.value)
         [] c.operator = "greater_than" ->
                (context[c.parameter].t = "number" /\ c.value.t = "number")
                    => context[c.parameter].n > c.value.n
         [] OTHER -> TRUE

\* C1: verifyCapability returns valid=true exactly when the stored capability
\* is active, the clock is inside [notBefore, expiration), the action is
\* granted, the resource matches a granted resource (exact, prefix or
\* wildcard) and every condition evaluates true against the context.
C1_ValidExactlyWhen ==
    VerifiedIssuedToken =>
        LET capability == VerifiedCapability
            request == result.request
        IN  result.out.valid <=>
                /\ capability.status = "active"
                /\ capability.notBefore <= result.decodedAt
                /\ result.decodedAt < capability.expiration
                /\ request.action \in SeqToSet(capability.actions)
                /\ DocumentedResourceMatch(capability.resources,
                                           request.resource)
                /\ \A i \in 1..Len(capability.conditions) :
                        ConditionHolds(capability.conditions[i],
                                       request.hasContext, request.context)

\* The token decodes and every check before the resource check passes
ReachesResourceCheck ==
    /\ VerifiedIssuedToken
    /\ ToSeconds(result.decodedAt) < result.request.token.exp
    /\ VerifiedCapability.status = "active"
    /\ result.request.action \in SeqToSet(VerifiedCapability.actions)

\* C2: a requested resource is accepted when it equals a granted resource,
\* when '*' is granted, or when it falls under a granted pattern: 'agents/*'
\* admits 'agents/123' and does not admit 'capabilities/1'.
C2_ResourceMatching ==
    ReachesResourceCheck =>
        ((result.out.errors
            # <<<<"Resource not accessible", result.request.resource>>>>)
         <=> DocumentedResourceMatch(VerifiedCapability.resources,
                                     result.request.resource))

\* C3: once a capability is revoked, verifying its unexpired token returns
\* valid=false with the revocation error, whatever action and resource are
\* asked for.
C3_RevokedTokenRejected ==
    (/\ VerifiedIssuedToken
     /\ VerifiedCapability.status = "revoked"
     /\ ToSeconds(result.decodedAt) < result.request.token.exp)
    => (/\ ~result.out.valid
        /\ result.out.errors = <<<<"Capability has been revoked">>>>)

\* A revoked capability was verified with the request it would pass if active
C3_Witness ==
    /\ VerifiedIssuedToken
    /\ VerifiedCapability.status = "revoked"
    /\ ToSeconds(result.decodedAt) < result.request.token.exp
    /\ result.request.action \in SeqToSet(VerifiedCapability.actions)
    /\ HasResourceAccess(VerifiedCapability.resources, result.request.resource)
    /\ result.out.errors = <<<<"Capability has been revoked">>>>

\* C4: revoking a capability that is already revoked leaves the store as it
\* was: same status, same revokedAt, no other record changed.
C4_RevokeIdempotent ==
    [][\A c \in DOMAIN calls :
          (/\ calls[c].pc # "idle"
           /\ calls[c].op = "revokeCapability"
           /\ calls[c].status = "revoked"
           /\ calls'[c] # calls[c])
          => (caps' = caps /\ activities' = activities)]_vars

\* The check an error message of verifyCapability belongs to
CheckOf(error) ==
    CASE error[1] = "Invalid token" -> "token"
      [] error[1] = "Capability has been revoked" -> "revoked"
      [] error[1] \in {"Token has expired", "Capability has expired"} -> "expired"
      [] error[1] = "Subject mismatch" -> "subject"
      [] error[1] = "Action not permitted" -> "action"
      [] error[1] = "Resource not accessible" -> "resource"
      [] error[1] = "Condition failed" -> "conditions"
      [] OTHER -> "other"

\* The first check that fails for the verified request, in the documented
\* order: token, revoked, expired, subject, action, resource, conditions
FirstFailingCheck ==
    LET request == result.request
        capability == VerifiedCapability
    IN  IF request.token.sig # "valid" THEN "token"
        ELSE IF capability.status = "revoked" THEN "revoked"
        ELSE IF ToSeconds(result.decodedAt) >= request.token.exp THEN "expired"
        ELSE IF request.token.sub # capability.subject THEN "subject"
        ELSE IF request.action \notin SeqToSet(capability.actions) THEN "action"
        ELSE IF ~HasResourceAccess(capability.resources, request.resource)
        THEN "resource"
        ELSE "conditions"

\* C5: a failing verification reports the earliest failing check only, in the
\* order token, revoked, expired, subject mismatch, action, resource,
\* conditions: a revoked capability past its expiration is reported as revoked.
C5_EarliestFailureReported ==
    (/\ result.op = "verifyCapability"
     /\ result.request.token.jti \in DOMAIN caps
     /\ ~result.out.valid)
    => (/\ Len(result.out.errors) >= 1
        /\ \A i \in 1..Len(result.out.errors) :
                CheckOf(result.out.errors[i]) = FirstFailingCheck)

\* The revoker is the issuer or, at the time given, holds an active,
\* unexpired capability that grants 'admin'
IssuerOrAdmin(capability, revokedBy, at) ==
    \/ revokedBy = capability.issuer
    \/ \E k \in DOMAIN caps :
            /\ caps[k].subject = revokedBy
            /\ caps[k].status = "active"
            /\ caps[k].expiration > at
            /\ \E i \in 1..Len(caps[k].actions) : caps[k].actions[i] = "admin"

\* A call of revokeCapability in flight
Revoking(c) == calls[c].pc # "idle" /\ calls[c].op = "revokeCapability"

\* C6: a capability changes only by a revokeCapability whose revokedBy is its
\* issuer or was, when the call checked it, the subject of an active,
\* unexpired capability granting 'admin'; any other revoker gets
\* AuthorizationError and the capability is untouched.
C6_RevokeNeedsIssuerOrAdmin ==
    [][/\ \A k \in DOMAIN caps :
            caps'[k] # caps[k]
                => \E c \in DOMAIN calls :
                      /\ Revoking(c)
                      /\ calls[c].pc = "update"
                      /\ calls[c].capabilityId = k
                      /\ IssuerOrAdmin(caps[k], calls[c].revokedBy,
                                       calls[c].checkedAt)
       /\ \A c \in DOMAIN calls :
            (/\ Revoking(c)
             /\ calls[c].pc = "admin"
             /\ calls'[c] # calls[c]
             /\ ~IssuerOrAdmin(caps[calls[c].capabilityId],
                               calls[c].revokedBy, now))
                => /\ result'.op = "revokeCapability"
                   /\ result'.error = "AuthorizationError"
                   /\ caps' = caps]_vars

\* An admin holder who is not the issuer has revoked a capability
C6_Witness ==
    /\ result.op = "revokeCapability"
    /\ result.error = "none"
    /\ result.revokedBy # caps[result.capabilityId].issuer
    /\ caps[result.capabilityId].status = "revoked"

C8_RevocationIsFinal ==
    [][\A c \in DOMAIN caps :
          caps[c].status = "revoked"
            => /\ c \in DOMAIN caps'
               /\ caps'[c].status = "revoked"
               /\ (/\ result'.op = "verifyCapability"
                   /\ result'.request.token.jti = c)
                     => ~result'.out.valid]_vars

\* A revoked capability is verified at a later time and is still refused
C8_Witness ==
    /\ VerifiedIssuedToken
    /\ VerifiedCapability.status = "revoked"
    /\ result.at > VerifiedCapability.revokedAt
    /\ ~result.out.valid

\* C9: issueCapability succeeds only when issuer and subject both exist and
\* are active; otherwise it fails with NotFound (a missing agent) or
\* AuthorizationError (a non-active one) and stores no capability, returns no
\* token and logs no CAPABILITY_GRANTED activity.
C9_IssueNeedsActiveAgents ==
    (result.op = "issueCapability" /\ result.error # "none")
        => /\ result.error \in {"NotFoundError", "AuthorizationError"}
           /\ result.error = "NotFoundError"
                => (~AgentExists(result.issuer) \/ ~AgentExists(result.subject))
           /\ result.error = "AuthorizationError"
                => \E a \in DOMAIN agents :
                        /\ agents[a].did \in {result.issuer, result.subject}
                        /\ agents[a].status # "active"
           /\ ~result.hasToken
           /\ result.capabilityId \notin DOMAIN caps

\* C10: verifyCapability, verifyAttestation and resolveDID do not throw for
\* an expected negative outcome: a bad, expired, revoked or unknown token
\* gives valid=false with an error, an unknown attestation id gives
\* valid=false with an error, and a DID that has no local document and that
\* the resolver does not know, or fails on, gives an envelope with a null
\* document and an error.
C10_NegativeOutcomesReturned ==
    /\ result.op = "verifyCapability"
            => (/\ ~result.out.threw
                /\ result.out.valid \/ Len(result.out.errors) >= 1)
    /\ (/\ result.op = "verifyAttestation"
        /\ result.attestationId \notin DOMAIN attestations)
            => (/\ ~result.out.threw
                /\ ~result.out.valid
                /\ Len(result.out.errors) >= 1)
    /\ result.op = "resolveDID"
            => (/\ ~result.out.threw
                /\ result.external \in {"nothing", "throws"}
                        => (/\ result.out.didDocument = "null"
                            /\ result.out.error # "none"))

\* The resolver failed on a DID that has no local document, and resolveDID
\* returned the envelope of an invalid DID
C10_Witness ==
    /\ result.op = "resolveDID"
    /\ result.did \notin DOMAIN documents
    /\ result.external = "throws"
    /\ ~result.out.threw
    /\ result.out.didDocument = "null"
    /\ result.out.error = "invalidDid"

-----------------------------------------------------------------------------
(* Properties of condition evaluation *)

\* The verified request passed every check before the conditions
ReachesConditions ==
    /\ ReachesResourceCheck
    /\ HasResourceAccess(VerifiedCapability.resources, result.request.resource)

\* The failure message of a condition, whatever word it carries
FailureOf(c) == {e \in SeqToSet(result.out.errors) : e[2] = c.parameter}

\* The conditions of the verified capability that fail against the context
FailingConditions ==
    {i \in 1..Len(VerifiedCapability.conditions) :
        ConditionErrors(VerifiedCapability.conditions[i],
                        result.request.context) # <<>>}

\* C11: when the action and resource checks pass and a context is supplied,
\* verifyCapability evaluates every condition and returns one message per
\* failing condition, all in one result: it does not stop at the first.
C11_AllFailuresReported ==
    (ReachesConditions /\ result.request.hasContext)
    => (/\ Len(result.out.errors) = Cardinality(FailingConditions)
        /\ \A i \in FailingConditions :
                FailureOf(VerifiedCapability.conditions[i]) # {}
        /\ result.out.valid <=> FailingConditions = {})

\* A verification that reports two failing conditions at once
C11_Witness ==
    /\ ReachesConditions
    /\ result.request.hasContext
    /\ Cardinality(FailingConditions) = 2
    /\ Len(result.out.errors) = 2

\* A condition of the verified capability reads a key the request lacks
SomeParameterAbsent ==
    \E i \in 1..Len(VerifiedCapability.conditions) :
        \/ ~result.request.hasContext
        \/ VerifiedCapability.conditions[i].parameter
                \notin DOMAIN result.request.context

\* C12: a condition whose parameter is absent from the context, or for which
\* no context is supplied, is a non-match: the verification is not valid.
C12_AbsentKeyFails ==
    (ReachesConditions /\ SomeParameterAbsent) => ~result.out.valid

\* C13: an 'equals' condition fails exactly when the context value differs
\* from the condition value, and a 'not_equals' condition fails exactly when
\* the two are equal.
C13_EqualsAndNotEquals ==
    (ReachesConditions /\ result.request.hasContext)
    => \A i \in 1..Len(VerifiedCapability.conditions) :
          LET c == VerifiedCapability.conditions[i]
              contextValue == ContextValue(result.request.context, c.parameter)
          IN  /\ c.operator = "equals"
                    => (FailureOf(c) # {} <=> ~StrictEquals(contextValue, c.value))
              /\ c.operator = "not_equals"
                    => (FailureOf(c) # {} <=> StrictEquals(contextValue, c.value))

\* C14: a greater_than or less_than condition is applied only when both
\* operands are numbers; with a non-number operand it is not counted as a
\* failure, and the verification can succeed.
C14_NumericOnlyComparison ==
    (ReachesConditions /\ result.request.hasContext)
    => \A i \in 1..Len(VerifiedCapability.conditions) :
          LET c == VerifiedCapability.conditions[i]
              contextValue == ContextValue(result.request.context, c.parameter)
          IN  c.operator \in {"greater_than", "less_than"}
                => IF contextValue.t = "number" /\ c.value.t = "number"
                   THEN FailureOf(c) # {}
                            <=> IF c.operator = "greater_than"
                                THEN contextValue.n <= c.value.n
                                ELSE contextValue.n >= c.value.n
                   ELSE FailureOf(c) = {}

\* A capability with a greater_than condition verified as valid against a
\* context whose value for it is a string
C14_Witness ==
    /\ ReachesConditions
    /\ result.request.hasContext
    /\ result.out.valid
    /\ \E i \in 1..Len(VerifiedCapability.conditions) :
          LET c == VerifiedCapability.conditions[i]
          IN  /\ c.operator = "greater_than"
              /\ c.parameter \in DOMAIN result.request.context
              /\ result.request.context[c.parameter].t = "string"

-----------------------------------------------------------------------------
(* Properties of issuing and delegation *)

\* The last operation issued a capability
Issued == result.op = "issueCapability" /\ result.error = "none"

\* The lifetime in hours that the issued capability was asked to have: the
\* request's expiresInHours, 24 when it gives none
AskedHours ==
    IF "expiresInHours" \in DOMAIN result.request
    THEN result.request.expiresInHours
    ELSE 24

\* C15: the expiration is issuedAt plus expiresInHours hours (24
\* when none is given) and at most 8760 hours after issuedAt, the token's exp
\* equals the stored expiration, and expiresIn is the lifetime in seconds.
C15_ExpirationAndExp ==
    Issued =>
        LET capability == caps[result.capabilityId]
        IN  /\ capability.expiration = capability.issuedAt + AskedHours * MsPerHour
            /\ AskedHours <= 8760
            /\ tokens[result.capabilityId].exp * MsPerSecond
                    = capability.expiration
            /\ result.expiresIn * MsPerSecond
                    = capability.expiration - capability.issuedAt

\* C16: delegation only narrows: the actions and resources of every
\* Delegation returned are subsets of the parent capability's (the parent's
\* own when no restrictions are passed), and delegateCapability is refused
\* with AuthorizationError unless the delegator is the parent's subject and
\* the parent's actions include 'delegate'.
C16_DelegationNarrows ==
    (result.op = "delegateCapability" /\ result.capabilityId \in DOMAIN caps)
    => LET parent == caps[result.capabilityId]
           mayDelegate ==
               /\ result.delegator = parent.subject
               /\ \E i \in 1..Len(parent.actions) : parent.actions[i] = "delegate"
       IN  /\ ~mayDelegate => result.error = "AuthorizationError"
           /\ result.error = "none" =>
                /\ mayDelegate
                /\ SeqToSet(result.delegation.actions)
                        \subseteq SeqToSet(parent.actions)
                /\ SeqToSet(result.delegation.resources)
                        \subseteq SeqToSet(parent.resources)
                /\ result.restrictions = NoRestrictions
                        => /\ result.delegation.actions = parent.actions
                           /\ result.delegation.resources = parent.resources

-----------------------------------------------------------------------------
(* Properties of attestations *)

Verified == result.op = "verifyAttestation"

ChainBuilt == result.op = "buildAttestationChain"

\* C20: whenever buildAttestationChain returns chainValid=true, every
\* attestation of the returned chain, the subject's own and those pulled in
\* through the issuer of a trust_assertion, is unrevoked and has no
\* expiresAt or one later than the time of the check.
C20_ValidChainHasNoRevokedOrExpired ==
    (ChainBuilt /\ result.chainValid) =>
        \A i \in 1..Len(result.chain) :
            /\ result.chain[i] \in DOMAIN attestations
            /\ ~attestations[result.chain[i]].revoked
            /\ attestations[result.chain[i]].expiresAt = 0
               \/ attestations[result.chain[i]].expiresAt > result.at

\* A valid chain of two attestations, one of them about another agent and
\* pulled in through the issuer of the subject's trust_assertion
C20_Witness ==
    /\ ChainBuilt
    /\ result.chainValid
    /\ Len(result.chain) = 2
    /\ attestations[result.chain[1]].type = "trust_assertion"
    /\ attestations[result.chain[1]].subject = result.subject
    /\ attestations[result.chain[2]].subject # result.subject

\* The valid attestations about the subject that the request's type selects
OwnValid(subject, type) ==
    {a \in DOMAIN attestations :
        /\ attestations[a].subject = subject
        /\ ValidOnly(attestations[a])
        /\ type # "any" => attestations[a].type = type}

\* The valid attestations issued by the issuer of one of the subject's
\* selected trust_assertions: one hop from the subject
OneHop(subject, type) ==
    {a \in DOMAIN attestations :
        /\ ValidOnly(attestations[a])
        /\ \E o \in OwnValid(subject, type) :
              /\ attestations[o].type = "trust_assertion"
              /\ attestations[a].issuer = attestations[o].issuer}

\* A call of buildAttestationChain in flight
Chaining(c) == calls[c].pc # "idle" /\ calls[c].op = "buildAttestationChain"

\* C21: buildAttestationChain returns for every attestation graph, cycles of
\* trust_assertions included: every step of its loop ends the call or moves
\* on in the subject's own attestations, which are finitely many.  The chain
\* is the subject's own valid attestations and those one hop away (issued by
\* the issuer of one of the subject's trust_assertions), nothing further,
\* and no attestation twice.
C21_OneHopNoRepeat ==
    [][/\ \A c \in DOMAIN calls :
            (Chaining(c) /\ calls'[c] # calls[c])
                => /\ calls[c].i <= Len(calls[c].own) + 1
                   /\ \/ calls'[c].pc = "idle"
                      \/ calls'[c].i > calls[c].i
       /\ (result'.op = "buildAttestationChain" /\ result'.error = "none") =>
            /\ \A i, j \in 1..Len(result'.chain) :
                  i # j => result'.chain[i] # result'.chain[j]
            /\ SeqToSet(result'.chain)
                  = OwnValid(result'.subject, result'.type)
                      \cup OneHop(result'.subject, result'.type)]_vars

\* Two agents hold trust_assertions about each other
TrustCycle ==
    \E a, b \in DOMAIN attestations :
        /\ attestations[a].type = "trust_assertion"
        /\ attestations[b].type = "trust_assertion"
        /\ ValidOnly(attestations[a]) /\ ValidOnly(attestations[b])
        /\ attestations[a].issuer # attestations[a].subject
        /\ attestations[a].issuer = attestations[b].subject
        /\ attestations[a].subject = attestations[b].issuer

\* A chain built inside such a cycle that took in an attestation found both
\* among the subject's own and among its issuer's
C21_Witness ==
    /\ ChainBuilt
    /\ TrustCycle
    /\ Len(result.chain) = 3
    /\ \E a \in OwnValid(result.subject, result.type) :
            a \in OneHop(result.subject, result.type)

-----------------------------------------------------------------------------
(* Properties of the DID registry *)

\* C30: every document of the DID service has the DID it is registered under
\* as its id, in every reachable state, and no operation changes the id of a
\* registered document, whatever fields an update supplies.
C30_DocumentIdIsDid ==
    /\ \A d \in DOMAIN documents : documents[d].id = d
    /\ result.op = "updateDID" /\ result.error = "none"
            => documents[result.did].id = result.did

\* An update that names another DID as id went through
C30_Witness ==
    /\ result.op = "updateDID"
    /\ result.error = "none"
    /\ {"id", "controller"} \subseteq DOMAIN result.updates
    /\ result.updates.id # result.did
    /\ documents[result.did].controller = result.updates.controller
    /\ documents[result.did].id = result.did

\* C31: deactivateDID is irreversible: once deactivateDID(did) has succeeded
\* no operation of the DID service brings the document back, and a resolveDID
\* of it returns no document and the error notFound. Stated for the
\* operation that follows the deactivation.
C31_DeactivationIsFinal ==
    [][\A d \in DidTargets :
          (result.op = "deactivateDID" /\ result.error = "none"
                /\ result.did = d)
            => /\ d \notin DOMAIN documents'
               /\ (result'.op = "resolveDID" /\ result'.did = d)
                     => /\ result'.out.didDocument = "null"
                        /\ result'.out.error = "notFound"]_vars

\* C32: a document missing from the in-process map is no error: for a DID
\* whose agent (and so its Identity row) is in the store, resolveDID returns
\* a document, addVerificationMethod and addServiceEndpoint succeed, and
\* deleteAgent of an agent in the store succeeds, cached or not
C32_CacheMissFallsThrough ==
    /\ (result.op = "resolveDID" /\ AgentExists(result.did))
            => result.out.didDocument # "null" /\ result.out.error = "none"
    /\ (result.op = "addVerificationMethod" /\ AgentExists(result.did))
            => result.error = "none"
    /\ (result.op = "addServiceEndpoint" /\ AgentExists(result.did)
            /\ result.did \notin DOMAIN documents)
            => result.error = "none"
    /\ result.op = "deleteAgent"
            => result.error \in {"none", "NotFoundError"}

-----------------------------------------------------------------------------
(* Properties of the trust engine *)

\* The last operation was a calculateTrustScore that returned a calculation
Calculated == result.op = "calculateTrustScore" /\ result.error = "none"

\* The agent the last call of the trust engine was about
ResultAgent == AgentByDid(result.agentId)

\* The row the last calculation added to trust_scores
LastTrustScore == trustScores[Len(trustScores)]

\* A score between 0 and 1
InUnitInterval(x) == ~Less(x, Zero) /\ ~Greater(x, One)

\* C22: calculateTrustScore returns a finalScore in [0,1]; the score kept in
\* Agent.trustScore and in the TrustScoreRecord is that finalScore rounded to
\* two decimals, as the DECIMAL(3,2) columns keep it, and lies in [0,1] too
C22_StoredScoreIsRounded ==
    Calculated =>
        /\ InUnitInterval(result.calculation.finalScore)
        /\ agents[ResultAgent].trustScore
                = ToDecimal2(result.calculation.finalScore)
        /\ LastTrustScore.agentId = ResultAgent
        /\ LastTrustScore.score = ToDecimal2(result.calculation.finalScore)
        /\ ToDecimal2(result.calculation.finalScore) \in 0..100

\* A calculation whose finalScore has more than two decimals has been stored
C22_Witness ==
    /\ Calculated
    /\ result.calculation.finalScore
            # FromDecimal2(ToDecimal2(result.calculation.finalScore))
    /\ LastTrustScore.agentId = ResultAgent

\* C22 as stated: the score kept in Agent.trustScore and in the
\* TrustScoreRecord is the very finalScore that was returned
C22_StoredScoreIsFinalScore ==
    Calculated =>
        /\ InUnitInterval(result.calculation.finalScore)
        /\ FromDecimal2(agents[ResultAgent].trustScore)
                = result.calculation.finalScore
        /\ FromDecimal2(LastTrustScore.score) = result.calculation.finalScore

\* What calculateTrustScore may return for an agent at this time, over the
\* orders in which its queries may return the rows of the tables as they are
CalculationsOf(agentId) ==
    LET agent == agents[agentId]
        typeLists ==
            {[i \in 1..Len(SubjectAttestations(agent.did, "any", order)) |->
                attestations[SubjectAttestations(agent.did, "any",
                                                 order)[i]].type] :
                order \in Listings}
        rowLists == ActivityListings(agentId, ScoreActivityLimit)
        Levels(all) == [i \in 1..Len(all) |->
                            [trustLevel |-> all[i].trustLevel]]
        related == {Levels(incoming \o outgoing) :
                        incoming \in Orders(Incoming(agentId)),
                        outgoing \in Orders(Outgoing(agentId))}
        penalties == {AnomalyPenalty(listed) :
                        listed \in AnomalyListings(agentId)}
        reads == {[agentId |-> AgentRef(agentId), types |-> types,
                   rows |-> rows,
                   baseScore |-> BaseScore(agent, types, rows, all, now),
                   recencyWeight |-> RecencyWeight(rows, now)] :
                    types \in typeLists, rows \in rowLists, all \in related}
    IN  {Calculation(read, penalty) : read \in reads, penalty \in penalties}

\* A step in which a call of calculateTrustScore for an agent named by its
\* id reads the anomalies and computes what it will return (a call that
\* names the agent by its DID returns no calculation: its INSERT fails)
Computes(c) ==
    /\ calls[c].pc = "anomalies"
    /\ calls[c].op = "calculateTrustScore"
    /\ ~IsDid(calls[c].agentId)
    /\ calls'[c].pc = "store"

\* C23: calculateTrustScore is deterministic: in whatever order its queries
\* return the rows of one snapshot, an evaluation at the same time yields the
\* same baseScore, recencyWeight, anomalyPenalty and finalScore (the whole
\* calculation) as the one the call computes
C23_Deterministic ==
    [][\A c \in DOMAIN calls :
        Computes(c) =>
            CalculationsOf(IdOf(calls[c].agentId))
                = {calls'[c].calculation}]_vars

\* The agent has no attestations, no activity, no relationships, reputation
\* 0, age 0 and no anomalies
BlankAgent(agentId) ==
    /\ \A order \in Listings :
          SubjectAttestations(agents[agentId].did, "any", order) = <<>>
    /\ ActivityBag(agentId) = EmptyBag
    /\ Incoming(agentId) \cup Outgoing(agentId) = {}
    /\ agents[agentId].reputation = 0
    /\ agents[agentId].createdAt = now
    /\ UnresolvedAnomalies_WithResolved(agentId) = {}

\* C24: for an agent with zero attestations, zero activity, zero
\* relationships, zero reputation, age 0 and no anomalies calculateTrustScore
\* returns a finalScore between 0.5 - decayRate * 0.5 and 0.5 inclusive
C24_BlankAgentNearNeutral ==
    (Calculated /\ BlankAgent(ResultAgent)) =>
        /\ ~Less(result.calculation.finalScore,
                 Minus(Half, Times(DecayRate, Half)))
        /\ ~Greater(result.calculation.finalScore, Half)

\* The activity rows of an agent with the agent's id left out
ActivityOf(agentId) ==
    LET bag == ActivityBag(agentId)
        Anonymous(r) == [activityType |-> r.activityType,
                         timestamp |-> r.timestamp, admin |-> r.admin]
    IN  {<<Anonymous(r), bag[r]>> : r \in DOMAIN bag}

\* The trust levels of the relationships of an agent, each with the number of
\* rows that have it
TrustLevels(agentId) ==
    LET own == Incoming(agentId) \cup Outgoing(agentId)
    IN  {<<level, Cardinality({r \in Incoming(agentId) :
                                    r.trustLevel = level})
                    + Cardinality({r \in Outgoing(agentId) :
                                    r.trustLevel = level})>> :
            level \in {r.trustLevel : r \in own}}

\* The latest activity of an agent
LatestActivity(agentId) ==
    CHOOSE r \in DOMAIN ActivityBag(agentId) :
        \A x \in DOMAIN ActivityBag(agentId) : r.timestamp >= x.timestamp

\* max(0, 1 - hoursSinceLastActivity / 168), 0 for an agent with no activity
RecencyOf(agentId) ==
    IF ActivityBag(agentId) = EmptyBag THEN Zero
    ELSE Max(Zero,
             Minus(One,
                   Over(Over(Double(now - LatestActivity(agentId).timestamp),
                             <<1000, 60, 60>>),
                        <<RecencyHours>>)))

\* C26: the recency weight is max(0, 1 - hoursSinceLastActivity / 168), and
\* the score is boosted by boostRate * recency whenever recency >= 0.5, a
\* recency of exactly 0.5 included, and otherwise decayed by
\* decayRate * (0.5 - recency)
C26_BoostFromHalf ==
    Calculated =>
        /\ result.calculation.recencyWeight = RecencyOf(ResultAgent)
        /\ result.calculation.finalScore =
            Clamp(Minus(RecencyAdjusted_BoostFromHalf(
                            result.calculation.baseScore,
                            result.calculation.recencyWeight),
                        result.calculation.anomalyPenalty), Zero, One)

\* The multipliers the claim names
ClaimedMultiplier(severity) ==
    CASE severity = "critical" -> Decimal(3, 1)
      [] severity = "high" -> Decimal(2, 1)
      [] severity = "medium" -> Decimal(1, 1)
      [] severity = "low" -> Decimal(5, 2)

\* The sum of multiplier times confidence over anomalies taken in an order
RECURSIVE ClaimedSum(_, _)
ClaimedSum(order, i) ==
    IF i = 0 THEN Zero
    ELSE Plus(ClaimedSum(order, i - 1),
              Times(ClaimedMultiplier(anomalies[order[i]].severity),
                    FromDecimal2(anomalies[order[i]].confidence)))

\* The penalty the claim describes: over the unresolved anomalies of the
\* agent, the sum of 0.3, 0.2, 0.1 or 0.05 (critical, high, medium, low)
\* times the confidence, at most 0.5; the sum taken in any order
PenaltiesOfUnresolved(agentId) ==
    LET own == {i \in DOMAIN anomalies :
                    anomalies[i].agentId = agentId /\ ~anomalies[i].resolved}
    IN  {Min(ClaimedSum(order, Len(order)), Decimal(5, 1)) :
            order \in Orders(own)}

\* C27: the anomaly penalty of a calculation is the capped sum over the
\* agent's own unresolved anomalies; resolveAnomaly(id) marks that anomaly
\* resolved, a resolved anomaly stays resolved, so it adds nothing to any
\* later calculation, and anomalies of other agents add nothing
C27_PenaltyOfUnresolved ==
    [][/\ \A c \in DOMAIN calls :
            Computes(c) =>
                calls'[c].calculation.anomalyPenalty
                    \in PenaltiesOfUnresolved(IdOf(calls[c].agentId))
       /\ \A i \in DOMAIN anomalies :
            /\ i \in DOMAIN anomalies'
            /\ anomalies[i].resolved => anomalies'[i].resolved
            /\ (result'.op = "resolveAnomaly" /\ result'.anomalyId = i)
                    => anomalies'[i].resolved]_vars

\* A calculation with a penalty for an agent one of whose anomalies
\* resolveAnomaly has resolved, while another agent has an unresolved anomaly
C27_Witness ==
    /\ Calculated
    /\ Greater(result.calculation.anomalyPenalty, Zero)
    /\ Less(result.calculation.anomalyPenalty, PenaltyCap)
    /\ \E i \in DOMAIN anomalies :
          /\ anomalies[i].agentId = ResultAgent
          /\ anomalies[i].resolved
          /\ anomalies[i].resolvedAt = now
    /\ \E j \in DOMAIN anomalies :
          anomalies[j].agentId # ResultAgent /\ ~anomalies[j].resolved

\* The trigger of the capability-escalation check as the claim states it: a
\* capability_granted activity whose metadata mentions 'admin'
EscalationTrigger(agentId) ==
    \E r \in DOMAIN ActivityBag(agentId) :
        r.activityType = "capability_granted" /\ r.admin

\* The trigger of one of the four other checks
OtherTrigger(agentId) ==
    \E rows \in ActivityListings(agentId, DetectActivityLimit),
       incoming \in Orders(Incoming(agentId)),
       outgoing \in Orders(Outgoing(agentId)) :
        \/ AccessPatternAnomalies(agentId, rows, now) # <<>>
        \/ TrustManipulation(agentId, rows, now) # <<>>
        \/ CollusionPatterns(agentId, incoming, outgoing, now) # <<>>
        \/ BehaviorDeviation(agentId, rows, now) # <<>>

\* The anomalies on record for an agent
AnomaliesOf(agentId) ==
    {i \in DOMAIN anomalies : anomalies[i].agentId = agentId}

\* C28: when an agent's data satisfies the capability-escalation trigger and
\* no other, detectAnomalies, called with the agent's id, returns and stores
\* exactly one anomaly, of type capability_escalation; when no trigger is
\* satisfied it reports nothing
C28_EscalationAlone ==
    (result.op = "detectAnomalies" /\ result.error = "none"
            /\ ~IsDid(result.agentId)
            /\ ~OtherTrigger(ResultAgent)) =>
        IF EscalationTrigger(ResultAgent)
        THEN /\ Len(result.anomalies) = 1
             /\ result.anomalies[1].anomalyType = "capability_escalation"
             /\ \E i \in AnomaliesOf(ResultAgent) :
                    anomalies[i].anomalyType = "capability_escalation"
             /\ \A i \in AnomaliesOf(ResultAgent) :
                    anomalies[i].anomalyType = "capability_escalation"
        ELSE result.anomalies = <<>>

\* C29: the sweep is idempotent: with nothing done but sweeps, the scores
\* calculateTrustScore stores for an agent are all the score of its first
\* run, and the unresolved anomalies of an agent are those of one run of
\* detectAnomalies, at most one of a type
C29_SweepIdempotent ==
    /\ \A i, j \in DOMAIN trustScores :
            trustScores[i].agentId = trustScores[j].agentId
                => trustScores[i].score = trustScores[j].score
    /\ \A i, j \in DOMAIN anomalies :
            (/\ i # j
             /\ anomalies[i].agentId = anomalies[j].agentId
             /\ ~anomalies[i].resolved /\ ~anomalies[j].resolved)
                => anomalies[i].anomalyType # anomalies[j].anomalyType
-----------------------------------------------------------------------------
(* Properties of the identity manager *)

\* The identities table holds a row for the agent
HasIdentity(a) == \E i \in identities : i.agentId = a

\* The activity log holds the agent's IDENTITY_CREATED row
HasCreationActivity(a) ==
    \E r \in DOMAIN activities :
        r.agentId = a /\ r.activityType = "identity_created"

\* C33: createAgent is atomic: the Agent row, the Identity row and the
\* IDENTITY_CREATED activity are all there or none is, so no agent is ever
\* without its identity, also after a createAgent whose second or third
\* statement failed
C33_CreateAgentAtomic ==
    \A a \in AgentIds :
        /\ a \in DOMAIN agents <=> HasIdentity(a)
        /\ a \in DOMAIN agents <=> HasCreationActivity(a)

\* A createAgent failed between the Agent insert and the Identity insert
C33_Witness ==
    /\ result.op = "createAgent"
    /\ result.error = "DatabaseError"
    /\ result.done = 1
    /\ result.agentId \notin DOMAIN agents
    /\ ~HasIdentity(result.agentId)

\* C34: deleting an agent cascades: after a deleteAgent that succeeded no
\* relationship, activity, capability or attestation that names the agent
\* (as source or target, as agentId, or by its DID as subject or issuer) is
\* left in the store
C34_DeletionCascades ==
    (result.op = "deleteAgent" /\ result.error = "none")
        => LET a == result.found
               did == DidOf(a)
           IN  /\ \A r \in relationships :
                      r.sourceAgentId # a /\ r.targetAgentId # a
               /\ \A r \in DOMAIN activities : r.agentId # a
               /\ \A c \in DOMAIN caps :
                      caps[c].subject # did /\ caps[c].issuer # did
               /\ \A t \in DOMAIN attestations :
                      /\ attestations[t].subject # did
                      /\ attestations[t].issuer # did

\* The key of a DID's first verification method
PrimaryKey(did) == MethodsOf(documents[did])[1].publicKeyHex

\* C35: verifyDIDOwnership returns true only for a signature made by the
\* DID's primary verification key over the digest of the message; for any
\* other signature, and for a DID with no local document or no key, false
C35_OwnershipNeedsValidSignature ==
    result.op = "verifyDIDOwnership"
        => /\ result.error = "none"
           /\ result.valid <=>
                /\ result.did \in DOMAIN documents
                /\ MethodsOf(documents[result.did]) # <<>>
                /\ HasPublicKeyHex(MethodsOf(documents[result.did])[1])
                /\ result.signature = Signature(PrimaryKey(result.did),
                                                CreateHash(result.message))

\* C37: the DID registry and the agent store are in one-to-one
\* correspondence: a document is registered for a DID exactly when an agent
\* with that DID, and its Identity row, exists; also after a createAgent
\* that rolled back, a deleteAgent whose DELETE failed, and a deactivateDID
\* called directly
C37_RegistryMatchesAgents ==
    \A a \in AgentIds :
        /\ DidOf(a) \in DOMAIN documents <=> a \in DOMAIN agents
        /\ DidOf(a) \in DOMAIN documents
                <=> [did |-> DidOf(a), agentId |-> a] \in identities

-----------------------------------------------------------------------------
(* Properties of the middleware *)

\* C38: the bearer token of a revoked capability authenticates nothing:
\* authenticateToken attaches no agent to the request and fails with an
\* authentication error
C38_RevokedTokenRejected ==
    (/\ result.op = "authenticateToken"
     /\ result.hasToken
     /\ result.token.sig = "valid"
     /\ result.token.jti \in DOMAIN caps
     /\ caps[result.token.jti].status = "revoked")
        => /\ ~result.out.attached
           /\ result.out.error = "AuthenticationError"

\* C39: revokeCapability is all-or-nothing: when it returns an error the
\* stored capability has the status the call found, and when it returns
\* without one the capability is revoked and its CAPABILITY_REVOKED activity
\* is recorded
C39_RevokeAllOrNothing ==
    (result.op = "revokeCapability" /\ result.capabilityId \in DOMAIN caps)
        => /\ result.error # "none"
                => caps[result.capabilityId].status = result.status
           /\ result.error = "none"
                => /\ caps[result.capabilityId].status = "revoked"
                   /\ \E r \in DOMAIN activities :
                          /\ r.activityType = "capability_revoked"
                          /\ r.capabilityId = result.capabilityId

\* An agent in good standing: it exists and its status is active
GoodStanding(did) ==
    AgentExists(did) /\ agents[AgentByDid(did)].status = "active"

\* C40: a capability is honoured only while its principals are in good
\* standing: once the subject agent or the issuer agent has been deleted or
\* is no longer active, verifyCapability of a token issued for the
\* capability returns valid = false
C40_PrincipalsInGoodStanding ==
    (/\ result.op = "verifyCapability"
     /\ result.request.token.sig = "valid"
     /\ result.request.token.jti \in DOMAIN caps
     /\ LET capability == caps[result.request.token.jti]
        IN  \/ ~GoodStanding(capability.subject)
            \/ capability.issuer \in AgentDids
                    /\ ~GoodStanding(capability.issuer))
        => ~result.out.valid

-----------------------------------------------------------------------------
(* Properties of overlapping calculations *)

\* The rows of trust_scores for an agent, oldest first
ScoreHistory(a) ==
    LET Of(row) == row.agentId = a IN SelectSeq(trustScores, Of)

\* C36: however calls of calculateTrustScore for one agent overlap, once all
\* of them have completed the agent's stored trustScore is the score of the
\* most recently written trust_scores row of that agent
C36_NoLostUpdate ==
    (\A c \in DOMAIN calls : calls[c].pc = "idle")
        => \A a \in DOMAIN agents :
              ScoreHistory(a) # <<>>
                  => agents[a].trustScore
                        = ScoreHistory(a)[Len(ScoreHistory(a))].score

====
